---- MODULE Spec2Model ----
(***************************************************************************)
(* A model of the feature-importance pipeline: the PostProcessor           *)
(* (modules/postprocessing.py), the cross-validation harness driven by     *)
(* run_toy_model.run and the extractor strategies                          *)
(* (modules/feature_extraction).                                           *)
(*                                                                         *)
(* Numbers.  Importances are exact rationals [n |-> numerator,             *)
(* d |-> denominator > 0] in lowest terms.  A dispersion (std) entry s is  *)
(* held as the surd [sq |-> s^2]: np.sqrt(q) is [sq |-> q], s ** 2 is     *)
(* s.sq and s / k is [sq |-> s.sq / k^2].  The sentinel -1 that marks a    *)
(* filtered feature in a std array is held as [sq |-> 1]: its sign is      *)
(* never read.                                                             *)
(*                                                                         *)
(* Arrays.  numpy arrays are objects: `heap` maps an object name to the    *)
(* array's value, and a field or local that holds an array holds the       *)
(* object's name, so that two names for one array see each other's writes. *)
(***************************************************************************)
EXTENDS Integers, Sequences, FiniteSets, TLC

VARIABLES
    heap,       \* the arrays: object name -> value
    extractor,  \* the feature extractor's fields
    pp,         \* the PostProcessor's fields, None before it is constructed
    last,       \* the last call made and the exception it raised
    produced,   \* the arrays as the harness left them (history)
    inp,        \* the caller's inputs
    numpy,      \* what the numpy build fixes: the order argsort leaves ties in
    hs          \* the cross-validation harness

vars == <<heap, extractor, pp, last, produced, inp, numpy, hs>>

\* Python's None, for a field that holds an array or an object
None == <<>>
\* what the last call raised: a Python exception's name, or NoException
NoException == "none"

(***************************** bounds ***************************************)
\* feature importances produced by the harness lie in 0..MaxImp
MaxImp == 1
\* dispersions (std) produced by the harness lie in 0..MaxStd
MaxStd == 1
\* the harness is configured with at most MaxIterations repetitions ...
MaxIterations == 2
\* ... of at most MaxSplits folds
MaxSplits == 2

(***************************** rationals ************************************)
RECURSIVE Gcd(_, _)
Gcd(a, b) == IF b = 0 THEN a ELSE Gcd(b, a % b)

Abs(x) == IF x < 0 THEN -x ELSE x

Rat(n, d) ==
    LET g == Gcd(Abs(n), Abs(d))
        s == IF d < 0 THEN -1 ELSE 1
    IN  [n |-> s * (n \div g), d |-> s * (d \div g)]

Q(n) == [n |-> n, d |-> 1]
Zero == Q(0)
One == Q(1)

RAdd(x, y) == Rat(x.n * y.d + y.n * x.d, x.d * y.d)
RSub(x, y) == Rat(x.n * y.d - y.n * x.d, x.d * y.d)
RMul(x, y) == Rat(x.n * y.n, x.d * y.d)
RDiv(x, y) == Rat(x.n * y.d, x.d * y.n)
RLt(x, y) == x.n * y.d < y.n * x.d
RLe(x, y) == x.n * y.d <= y.n * x.d

RECURSIVE RSum(_)
RSum(s) == IF s = <<>> THEN Zero ELSE RAdd(Head(s), RSum(Tail(s)))

RECURSIVE RMaxSeq(_)
RMaxSeq(s) ==
    IF Len(s) = 1 THEN s[1]
    ELSE LET m == RMaxSeq(Tail(s)) IN IF RLt(s[1], m) THEN m ELSE s[1]

RECURSIVE RMinSeq(_)
RMinSeq(s) ==
    IF Len(s) = 1 THEN s[1]
    ELSE LET m == RMinSeq(Tail(s)) IN IF RLt(m, s[1]) THEN m ELSE s[1]

\* x.mean() of a one-dimensional array
RMean(s) == RDiv(RSum(s), Q(Len(s)))

(***************************** arrays ***************************************)
\* a matrix is a sequence of rows, m[row][column], as numpy indexes it
\* an array built element by element, each element computed once
Arr(f) == f \o <<>>

NRows(m) == Len(m)
NCols(m) == Len(m[1])
Column(m, c) == Arr([r \in 1..Len(m) |-> m[r][c]])
Zeros(nr, nc) == Arr([r \in 1..nr |-> Arr([c \in 1..nc |-> Zero])])

\* the elements of a sequence, in order, whose index satisfies keep
RECURSIVE SelectIdx(_, _, _)
SelectIdx(s, keep, i) ==
    IF i > Len(s) THEN <<>>
    ELSE (IF i \in keep THEN <<s[i]>> ELSE <<>>) \o SelectIdx(s, keep, i + 1)

(***************************** dispersions **********************************)
\* np.sqrt(q) of a rational q >= 0
Sqrt(q) == [sq |-> q]
\* s ** 2 of a dispersion s
Square(s) == s.sq
\* s / k of a dispersion s and a rational k > 0
SurdDiv(s, k) == [sq |-> RDiv(s.sq, RMul(k, k))]
SurdZero == Sqrt(Zero)
\* the mean of a one-dimensional array of dispersions: a sum of square
\* roots, kept as the radicands it sums and the count it divides by
SurdMean(s) == [sum_of_sqrt |-> Arr([i \in 1..Len(s) |-> s[i].sq]), over |-> Len(s)]

(***************************** utils / filtering ****************************)
\* the rows of an importance matrix not marked as filtered out (-1)
indices_not_filtered(m) == {r \in 1..Len(m) : ~RLt(m[r][1], Zero)}

\* utils.rescale_feature_importance: min-max rescaling of every cluster
\* column, a range of ~0 replaced by a unit scale; the std is divided by the
\* same scale; rows marked -1 are left for the filtering that follows
rescale_feature_importance(m, s) ==
    LET keep == indices_not_filtered(m)
        lo == Arr([c \in 1..NCols(m) |-> RMinSeq(SelectIdx(Column(m, c), keep, 1))])
        hi == Arr([c \in 1..NCols(m) |-> RMaxSeq(SelectIdx(Column(m, c), keep, 1))])
        scale == Arr([c \in 1..NCols(m) |->
                    LET d == RSub(hi[c], lo[c]) IN IF d.n = 0 THEN One ELSE d])
    IN  IF keep = {} THEN [imp |-> m, std |-> s]
        ELSE [imp |-> Arr([r \in 1..Len(m) |-> Arr([c \in 1..NCols(m) |->
                        IF r \in keep THEN RDiv(RSub(m[r][c], lo[c]), scale[c])
                        ELSE m[r][c]])]),
              std |-> Arr([r \in 1..Len(m) |-> Arr([c \in 1..NCols(m) |->
                        IF r \in keep THEN SurdDiv(s[r][c], scale[c])
                        ELSE s[r][c]])])]

\* filtering.filter_feature_importance: the contribution of the features
\* marked as excluded (-1) is zeroed
filter_feature_importance(m, s) ==
    LET keep == indices_not_filtered(m)
    IN  [imp |-> Arr([r \in 1..Len(m) |-> Arr([c \in 1..NCols(m) |->
                    IF r \in keep THEN m[r][c] ELSE Zero])]),
         std |-> Arr([r \in 1..Len(m) |-> Arr([c \in 1..NCols(m) |->
                    IF r \in keep THEN s[r][c] ELSE SurdZero])])]

(***************************** PostProcessor ********************************)
RowAdd(a, b) == Arr([c \in 1..Len(a) |-> RAdd(a[c], b[c])])

\* np.unique(feature_to_resids.flatten()): the residues, ascending
RECURSIVE SortedSeq(_)
SortedSeq(S) ==
    IF S = {} THEN <<>>
    ELSE LET m == CHOOSE x \in S : \A y \in S : x <= y
         IN  <<m>> \o SortedSeq(S \ {m})

index_to_resid(f2r) == SortedSeq({f2r[f][k] : f \in 1..Len(f2r), k \in 1..2})

\* the map pointing back from a residue to its index in index_to_resid
res_id_to_index(i2r) ==
    [resid \in {i2r[i] : i \in 1..Len(i2r)} |-> CHOOSE i \in 1..Len(i2r) : i2r[i] = resid]

\* FreshAccumulator with a slip: the arrays the previous call left are kept
StaleAccumulator(p, nres, ncols) ==
    IF p.importance_mapped_to_resids # None
    THEN p.importance_mapped_to_resids
    ELSE Zeros(nres, ncols)

\* the accumulators _map_feature_to_resids starts from: np.zeros
FreshAccumulator(p, nres, ncols) == Zeros(nres, ncols)

\* AddImportance with a slip: the second residue of the pair is forgotten
AddImportance_OneSided(acc, res1, res2, rel) ==
    [acc EXCEPT ![res1] = RowAdd(@, rel)]

\* AddImportance with a slip: a feature on a single residue adds once
AddImportance_SelfOnce(acc, res1, res2, rel) ==
    LET a1 == [acc EXCEPT ![res1] = RowAdd(@, rel)]
    IN  IF res1 = res2 THEN a1 ELSE [a1 EXCEPT ![res2] = RowAdd(@, rel)]

\* importance_mapped_to_resids[res1, :] += rel; [res2, :] += rel
AddImportance(acc, res1, res2, rel) ==
    LET a1 == [acc EXCEPT ![res1] = RowAdd(@, rel)]
    IN  [a1 EXCEPT ![res2] = RowAdd(@, rel)]

\* AddStd with a slip: "=" for "+=", the last feature's variance wins
AddStd_Overwrite(acc, res1, res2, std) ==
    LET sq == Arr([c \in 1..Len(std) |-> Square(std[c])])
        a1 == [acc EXCEPT ![res1] = sq]
    IN  [a1 EXCEPT ![res2] = sq]

\* std_importance_mapped_to_resids[res1, :] += std ** 2; [res2, :] += std ** 2
AddStd(acc, res1, res2, std) ==
    LET sq == Arr([c \in 1..Len(std) |-> Square(std[c])])
        a1 == [acc EXCEPT ![res1] = RowAdd(@, sq)]
    IN  [a1 EXCEPT ![res2] = RowAdd(@, sq)]

\* the loop over the features, from feature f on
RECURSIVE MapLoop(_, _, _, _, _, _)
MapLoop(f, acc, fi, sfi, f2r, r2i) ==
    IF f > Len(fi) THEN acc
    ELSE LET res1 == r2i[f2r[f][1]]
             res2 == r2i[f2r[f][2]]
         IN  MapLoop(f + 1,
                     [imp |-> AddImportance(acc.imp, res1, res2, fi[f]),
                      std |-> AddStd(acc.std, res1, res2, sfi[f])],
                     fi, sfi, f2r, r2i)

map_feature_to_resids(p, h) ==
    LET fi == h[p.feature_importances]
        sfi == h[p.std_feature_importances]
        i2r == index_to_resid(p.feature_to_resids)
        nres == Len(i2r)
        acc == MapLoop(1, [imp |-> FreshAccumulator(p, nres, NCols(fi)),
                           std |-> FreshAccumulator(p, nres, NCols(fi))],
                       fi, sfi, p.feature_to_resids, res_id_to_index(i2r))
    IN  [p EXCEPT !.index_to_resid = i2r,
                  !.nresidues = nres,
                  !.importance_mapped_to_resids = acc.imp,
                  !.std_importance_mapped_to_resids =
                      Arr([r \in 1..nres |->
                            Arr([c \in 1..NCols(fi) |-> Sqrt(acc.std[r][c])])])]

AsColumn(v) == Arr([r \in 1..Len(v) |-> <<v[r]>>])

\* compute_importance_per_residue with a slip: rescale_results is not read
compute_importance_per_residue_NoRescale(p) ==
    LET m == p.importance_mapped_to_resids
        sm == p.std_importance_mapped_to_resids
    IN  [p EXCEPT !.importance_per_residue = Arr([r \in 1..Len(m) |-> RMean(m[r])]),
                  !.std_importance_per_residue = Arr([r \in 1..Len(m) |->
                      Sqrt(RMean(Arr([c \in 1..Len(sm[r]) |-> Square(sm[r][c])])))])]

compute_importance_per_residue(p) ==
    LET m == p.importance_mapped_to_resids
        sm == p.std_importance_mapped_to_resids
        ipr == Arr([r \in 1..Len(m) |-> RMean(m[r])])
        spr == Arr([r \in 1..Len(m) |->
                  Sqrt(RMean(Arr([c \in 1..Len(sm[r]) |-> Square(sm[r][c])])))])
        res == rescale_feature_importance(AsColumn(ipr), AsColumn(spr))
    IN  IF p.rescale_results
        THEN [p EXCEPT !.importance_per_residue = Column(res.imp, 1),
                       !.std_importance_per_residue = Column(res.std, 1)]
        ELSE [p EXCEPT !.importance_per_residue = ipr,
                       !.std_importance_per_residue = spr]

compute_importance_per_residue_and_cluster(p) ==
    LET res == rescale_feature_importance(p.importance_mapped_to_resids,
                                          p.std_importance_mapped_to_resids)
        q == IF p.rescale_results
             THEN [p EXCEPT !.importance_mapped_to_resids = res.imp,
                            !.std_importance_mapped_to_resids = res.std]
             ELSE p
    IN  [q EXCEPT !.importance_per_residue_and_cluster = q.importance_mapped_to_resids,
                  !.std_importance_per_residue_and_cluster = q.std_importance_mapped_to_resids]

\* average with a slip: the supervised flag is not read
average_AlwaysPerCluster(p, h) ==
    compute_importance_per_residue_and_cluster(
        compute_importance_per_residue(map_feature_to_resids(p, h)))

average(p, h) ==
    LET q == compute_importance_per_residue(map_feature_to_resids(p, h))
    IN  IF q.supervised THEN compute_importance_per_residue_and_cluster(q) ELSE q

compute_average_std(p) ==
    [p EXCEPT !.average_std = SurdMean(p.std_importance_per_residue)]

\* data_projection.DataProjector(samples, cluster_indices).project(importance)
\* .score_projection(): reads the samples and holds the separation scores
DataProjector(samples, cluster_indices, importance) ==
    [samples |-> samples, cluster_indices |-> cluster_indices, scored |-> TRUE]

compute_projection_classification_entropy(p, e, h) ==
    [p EXCEPT !.data_projector =
        DataProjector(e.samples, p.cluster_indices, h[p.feature_importances])]

\* np.argsort(-x): the indices that order x descending; the order of equal
\* entries is the sorting routine's, fixed for a run (ties)
RECURSIVE ArgsortDescending(_, _, _)
ArgsortDescending(x, left, ties) ==
    IF left = {} THEN <<>>
    ELSE LET best == {i \in left : \A j \in left : RLe(x[j], x[i])}
             pick == IF ties = "low_index_first"
                     THEN CHOOSE i \in best : \A j \in best : i <= j
                     ELSE CHOOSE i \in best : \A j \in best : i >= j
         IN  <<pick>> \o ArgsortDescending(x, left \ {pick}, ties)

\* -np.sort(-x): the values of x, descending
RECURSIVE InsertDescending(_, _)
InsertDescending(v, s) ==
    IF s = <<>> THEN <<v>>
    ELSE IF RLe(s[1], v) THEN <<v>> \o s
    ELSE <<s[1]>> \o InsertDescending(v, Tail(s))

RECURSIVE SortDescending(_)
SortDescending(x) ==
    IF x = <<>> THEN <<>> ELSE InsertDescending(x[1], SortDescending(Tail(x)))

\* difference_max_index with a slip: the last index of the maximum
difference_max_index_Last(difference) ==
    LET difference_max == RMaxSeq(difference)
    IN  CHOOSE j \in 1..Len(difference) :
            /\ difference[j] = difference_max
            /\ \A k \in (j + 1)..Len(difference) : difference[k] # difference_max

\* difference.index(max(difference)): the first index of the maximum
\* difference_max_index with a slip: the index of the slice's last element
\* for the slice's end, so POSITIVE can be empty
difference_max_index_SliceEnd(difference) ==
    LET difference_max == RMaxSeq(difference)
    IN  (CHOOSE j \in 1..Len(difference) :
            /\ difference[j] = difference_max
            /\ \A k \in 1..(j - 1) : difference[k] # difference_max) - 1

difference_max_index(difference) ==
    LET difference_max == RMaxSeq(difference)
    IN  CHOOSE j \in 1..Len(difference) :
            /\ difference[j] = difference_max
            /\ \A k \in 1..(j - 1) : difference[k] # difference_max

SeqRange(s) == {s[i] : i \in 1..Len(s)}

\* one turn of the loop over the clusters: TP, FP, TN, FN of cluster i.
\* Indices are counted from 1 here: sorted positions 1..j are POSITIVE.
cluster_confusion(p, i, ties) ==
    LET col == Column(p.importance_per_residue_and_cluster, i)
        SORTED == SortDescending(col)
        SORTED_IND == ArgsortDescending(col, 1..Len(col), ties)
        difference == Arr([j \in 1..(p.nresidues - 1) |->
                            RSub(SORTED[j], SORTED[j + 1])])
        j == difference_max_index(difference)
        POSITIVE == SubSeq(SORTED_IND, 1, j)
        NEGATIVE == SubSeq(SORTED_IND, j + 1, Len(SORTED_IND))
        ind_actives == p.predefined_relevant_residues[i]
        TP == Cardinality(SeqRange(POSITIVE) \cap ind_actives)
        FP == Len(POSITIVE) - TP
        ind_decoys == {r \in 1..p.nresidues : r \notin ind_actives}
        TN == Cardinality(SeqRange(NEGATIVE) \cap ind_decoys)
        FN == Len(NEGATIVE) - TN
    IN  [TP |-> TP, FP |-> FP, TN |-> TN, FN |-> FN,
         POSITIVE |-> POSITIVE, NEGATIVE |-> NEGATIVE]

\* the exception _compute_area_under_ROC ends with, NoException when it returns
area_under_ROC_raises(p, ties) ==
    IF p.nresidues < 2 THEN "ValueError"
    ELSE IF \E i \in 1..p.nclusters :
                LET k == cluster_confusion(p, i, ties)
                IN  k.TP + k.FP = 0 \/ k.TN + k.FN = 0
         THEN "ZeroDivisionError"
         ELSE NoException

compute_area_under_ROC(p, ties) ==
    LET k == Arr([i \in 1..p.nclusters |-> cluster_confusion(p, i, ties)])
        POS_RATIO == RSum(Arr([i \in 1..p.nclusters |->
                            Rat(k[i].TP - k[i].FP, k[i].TP + k[i].FP)]))
        NEG_RATIO == RSum(Arr([i \in 1..p.nclusters |->
                            Rat(k[i].TN - k[i].FN, k[i].TN + k[i].FN)]))
    IN  [p EXCEPT !.auc = <<RDiv(POS_RATIO, Q(p.nclusters)),
                            RDiv(NEG_RATIO, Q(p.nclusters))>>]

\* evaluate_performance with a slip: the relevant residues are indexed without
\* the test for None
evaluate_performance_NoNoneCheck(p, e, h, ties) ==
    IF p.std_importance_per_residue = None
    THEN [p |-> p, raised |-> "AttributeError"]
    ELSE LET q == compute_projection_classification_entropy(compute_average_std(p), e, h)
         IN  IF q.supervised
             THEN [p |-> q, raised |-> "TypeError"]
             ELSE [p |-> q, raised |-> NoException]

\* evaluate_performance: the PostProcessor it leaves and what it raises
\* evaluate_performance with a slip: the projection is scored before the
\* average of the std is taken
evaluate_performance_ProjectionFirst(p, e, h, ties) ==
    IF p.std_importance_per_residue = None
    THEN [p |-> compute_projection_classification_entropy(p, e, h),
          raised |-> "AttributeError"]
    ELSE LET q == compute_projection_classification_entropy(compute_average_std(p), e, h)
             ex == area_under_ROC_raises(q, ties)
         IN  IF q.supervised /\ q.predefined_relevant_residues # None
             THEN IF ex # NoException
                  THEN [p |-> q, raised |-> ex]
                  ELSE [p |-> compute_area_under_ROC(q, ties), raised |-> NoException]
             ELSE [p |-> q, raised |-> NoException]

evaluate_performance(p, e, h, ties) ==
    IF p.std_importance_per_residue = None
    THEN [p |-> p, raised |-> "AttributeError"]
    ELSE LET q == compute_projection_classification_entropy(compute_average_std(p), e, h)
             ex == area_under_ROC_raises(q, ties)
         IN  IF q.supervised /\ q.predefined_relevant_residues # None
             THEN IF ex # NoException
                  THEN [p |-> q, raised |-> ex]
                  ELSE [p |-> compute_area_under_ROC(q, ties), raised |-> NoException]
             ELSE [p |-> q, raised |-> NoException]

\* the rows of the importance the constructor zeroes: those marked -1
indices_filtered(m) == {f \in 1..Len(m) : m[f][1] = Q(-1)}

ZeroRows(m, rows, zero) ==
    Arr([f \in 1..Len(m) |->
            IF f \in rows THEN Arr([c \in 1..Len(m[f]) |-> zero]) ELSE m[f]])

\* PostProcessorInit with a slip: the supervised argument is the mode
PostProcessorInit_ArgumentRead(e, h, rescale_results, filter_results, feature_to_resids, predefined_relevant_residues, supervised) ==
    LET \* l.45-46: the fields name the extractor's own arrays
        r0 == [fi |-> e.feature_importance, std |-> e.std_feature_importance]
        \* l.59-61: rescaling returns new arrays
        res == rescale_feature_importance(h[r0.fi], h[r0.std])
        h1 == IF rescale_results
              THEN [h EXCEPT !["pp_fi"] = res.imp, !["pp_std"] = res.std]
              ELSE h
        r1 == IF rescale_results THEN [fi |-> "pp_fi", std |-> "pp_std"] ELSE r0
        \* l.62-64: so does filtering
        fil == filter_feature_importance(h1[r1.fi], h1[r1.std])
        h2 == IF filter_results
              THEN [h1 EXCEPT !["pp_fi"] = fil.imp, !["pp_std"] = fil.std]
              ELSE h1
        r2 == IF filter_results THEN [fi |-> "pp_fi", std |-> "pp_std"] ELSE r1
        \* l.67-69: the rows marked -1 are zeroed in place
        filtered == indices_filtered(h2[r2.fi])
        h3 == [h2 EXCEPT ![r2.fi] = ZeroRows(@, filtered, Zero),
                         ![r2.std] = ZeroRows(@, filtered, SurdZero)]
    IN  [h |-> h3,
         p |-> [extractor |-> "extractor",
                feature_importances |-> r2.fi,
                std_feature_importances |-> r2.std,
                supervised |-> supervised,
                cluster_indices |-> e.cluster_indices,
                nclusters |-> Cardinality(SeqRange(e.cluster_indices)),
                predefined_relevant_residues |-> predefined_relevant_residues,
                rescale_results |-> rescale_results,
                indices_filtered |-> filtered,
                nfeatures |-> Len(h3[r2.fi]),
                feature_to_resids |-> feature_to_resids,
                importance_per_residue_and_cluster |-> None,
                std_importance_per_residue_and_cluster |-> None,
                importance_per_residue |-> None,
                std_importance_per_residue |-> None,
                index_to_resid |-> None,
                nresidues |-> None,
                importance_mapped_to_resids |-> None,
                std_importance_mapped_to_resids |-> None,
                average_std |-> None,
                test_set_errors |-> RMean(e.test_set_errors),
                data_projector |-> None,
                auc |-> None]]

\* PostProcessor.__init__: the PostProcessor and the heap it leaves
PostProcessorInit(e, h, rescale_results, filter_results, feature_to_resids, predefined_relevant_residues, supervised) ==
    LET \* l.45-46: the fields name the extractor's own arrays
        r0 == [fi |-> e.feature_importance, std |-> e.std_feature_importance]
        \* l.59-61: rescaling returns new arrays
        res == rescale_feature_importance(h[r0.fi], h[r0.std])
        h1 == IF rescale_results
              THEN [h EXCEPT !["pp_fi"] = res.imp, !["pp_std"] = res.std]
              ELSE h
        r1 == IF rescale_results THEN [fi |-> "pp_fi", std |-> "pp_std"] ELSE r0
        \* l.62-64: so does filtering
        fil == filter_feature_importance(h1[r1.fi], h1[r1.std])
        h2 == IF filter_results
              THEN [h1 EXCEPT !["pp_fi"] = fil.imp, !["pp_std"] = fil.std]
              ELSE h1
        r2 == IF filter_results THEN [fi |-> "pp_fi", std |-> "pp_std"] ELSE r1
        \* l.67-69: the rows marked -1 are zeroed in place
        filtered == indices_filtered(h2[r2.fi])
        h3 == [h2 EXCEPT ![r2.fi] = ZeroRows(@, filtered, Zero),
                         ![r2.std] = ZeroRows(@, filtered, SurdZero)]
    IN  [h |-> h3,
         p |-> [extractor |-> "extractor",
                feature_importances |-> r2.fi,
                std_feature_importances |-> r2.std,
                supervised |-> e.supervised,
                cluster_indices |-> e.cluster_indices,
                nclusters |-> Cardinality(SeqRange(e.cluster_indices)),
                predefined_relevant_residues |-> predefined_relevant_residues,
                rescale_results |-> rescale_results,
                indices_filtered |-> filtered,
                nfeatures |-> Len(h3[r2.fi]),
                feature_to_resids |-> feature_to_resids,
                importance_per_residue_and_cluster |-> None,
                std_importance_per_residue_and_cluster |-> None,
                importance_per_residue |-> None,
                std_importance_per_residue |-> None,
                index_to_resid |-> None,
                nresidues |-> None,
                importance_mapped_to_resids |-> None,
                std_importance_mapped_to_resids |-> None,
                average_std |-> None,
                test_set_errors |-> RMean(e.test_set_errors),
                data_projector |-> None,
                auc |-> None]]

(***************************** inputs ***************************************)
\* feature_to_resids: one residue pair per feature
FeatureMaps ==
    { << <<5, 9>> >>,                          \* one feature, two residues
      << <<2, 2>> >>,                          \* one feature on a single residue
      << <<2, 2>>, <<2, 4>> >>,
      << <<1, 2>>, <<1, 3>>, <<1, 4>> >>,      \* three features share residue 1
      << <<1, 2>>, <<1, 3>>, <<2, 3>> >> }     \* every pair of three residues

ClusterCounts == {1, 2}

TieOrders == {"low_index_first", "high_index_first"}

\* the features the harness filtered out by the distance cutoff (marked -1)
FilteredByCutoff(nfeatures) == IF nfeatures >= 2 THEN {{}, {1}} ELSE {{}}

\* what a caller may pass as predefined_relevant_residues: nothing, or the
\* relevant residue indices of every cluster
PredefinedChoices(ncl, nres) ==
    {None, [i \in 1..ncl |-> IF i = 1 THEN {1} ELSE {1, nres}]}

\* the importances and dispersions a run of the harness leaves: either the
\* importances of the features range over 0..MaxImp (a later cluster's
\* shifted by a multiple of the feature's number) and the dispersions follow
\* a pattern, or the dispersions of the features range over 0..MaxStd
\* (growing by one from a cluster to the next) and the importances follow a
\* pattern
HarnessOutputs(nf, ncl) ==
    {[fi |-> [f \in 1..nf |-> [c \in 1..ncl |-> (x[f] + (c - 1) * shift * f) % (MaxImp + 1)]],
      sd |-> [f \in 1..nf |-> [c \in 1..ncl |-> (f + c) % (MaxStd + 1)]]] :
        x \in [1..nf -> 0..MaxImp], shift \in 0..(IF ncl = 1 THEN 0 ELSE MaxImp)}
    \cup
    {[fi |-> [f \in 1..nf |-> [c \in 1..ncl |-> (f * c) % (MaxImp + 1)]],
      sd |-> [f \in 1..nf |-> [c \in 1..ncl |-> y[f] + c - 1]]] :
        y \in [1..nf -> 0..MaxStd]}

\* the harness has returned
NoHarness == [pc |-> "done"]

(***************************** PostProcessor run ****************************)
Called(name, exception) == [call |-> name, raised |-> exception]

InitPP ==
    \E f2r \in FeatureMaps, ncl \in ClusterCounts, sup \in BOOLEAN :
    \E cut \in FilteredByCutoff(Len(f2r)), out \in HarnessOutputs(Len(f2r), ncl) :
       LET efi == Arr([f \in 1..Len(f2r) |-> Arr([c \in 1..ncl |->
                      IF f \in cut THEN Q(-1) ELSE Q(out.fi[f][c])])])
           esd == Arr([f \in 1..Len(f2r) |-> Arr([c \in 1..ncl |->
                      IF f \in cut THEN Sqrt(Q(1))
                      ELSE Sqrt(Q(out.sd[f][c] * out.sd[f][c]))])])
           smp == Arr([n \in 1..ncl |-> Arr([f \in 1..Len(f2r) |-> Q(n)])])
           lbl == Arr([n \in 1..ncl |-> Arr([c \in 1..ncl |->
                      IF c = n THEN One ELSE Zero])])
       IN  /\ heap = [ext_fi |-> efi, ext_std |-> esd, pp_fi |-> None, pp_std |-> None,
                      samples |-> smp, labels |-> lbl]
           /\ extractor = [feature_importance |-> "ext_fi",
                           std_feature_importance |-> "ext_std",
                           supervised |-> sup,
                           cluster_indices |-> [n \in 1..ncl |-> n - 1],
                           samples |-> "samples",
                           labels |-> "labels",
                           test_set_errors |-> <<Zero>>]
           /\ produced = [feature_importance |-> efi, std_feature_importance |-> esd,
                          samples |-> smp, labels |-> lbl]
           /\ inp = [feature_to_resids |-> f2r]
           /\ numpy = [argsort_ties |-> "unset"]
           /\ pp = None
           /\ last = Called("extract_features", NoException)
           /\ hs = NoHarness

\* p = PostProcessor(extractor, rescale_results=.., filter_results=.., ...)
Construct ==
    /\ hs.pc = "done"
    /\ pp = None
    /\ \E rescale_results \in BOOLEAN, filter_results \in BOOLEAN, supervised \in BOOLEAN :
       \E predefined \in PredefinedChoices(
                            Cardinality(SeqRange(extractor.cluster_indices)),
                            Len(index_to_resid(inp.feature_to_resids))) :
          LET r == PostProcessorInit(extractor, heap, rescale_results, filter_results,
                                     inp.feature_to_resids, predefined, supervised)
          IN  /\ pp' = r.p
              /\ heap' = r.h
    /\ last' = Called("__init__", NoException)
    /\ UNCHANGED <<extractor, produced, inp, numpy, hs>>

\* p.average()
Average ==
    /\ hs.pc = "done"
    /\ pp # None
    /\ pp' = average(pp, heap)
    /\ last' = Called("average", NoException)
    /\ UNCHANGED <<heap, extractor, produced, inp, numpy, hs>>

\* whether evaluate_performance, called now, sorts (reaches np.argsort)
ReachesArgsort(p) ==
    /\ p.std_importance_per_residue # None
    /\ p.supervised
    /\ p.predefined_relevant_residues # None
    /\ p.nresidues >= 2

\* p.evaluate_performance(); the first sort fixes the order of ties
EvaluatePerformance ==
    /\ hs.pc = "done"
    /\ pp # None
    /\ \E ties \in IF numpy.argsort_ties = "unset" /\ ReachesArgsort(pp)
                   THEN TieOrders ELSE {numpy.argsort_ties} :
          LET r == evaluate_performance(pp, extractor, heap, ties)
          IN  /\ pp' = r.p
              /\ last' = Called("evaluate_performance", r.raised)
              /\ numpy' = [argsort_ties |-> ties]
    /\ UNCHANGED <<heap, extractor, produced, inp, hs>>

NextPP == Construct \/ Average \/ EvaluatePerformance

SpecPP == InitPP /\ [][NextPP]_vars

(***************************** harness **************************************)
\* run_toy_model.run, l.90: extractor.error_limit = 50
error_limit == 50

\* the held-out errors a split can end with: at the limit, and above it
ErrorValues == {error_limit, error_limit + 1}

\* Accepts with a slip: outlier rejection is left out
Accepts_All(error, limit) == TRUE

\* a split is discarded if its error exceeds the limit
Accepts(error, limit) == error <= limit

\* the importance a trained model assigns: v to the first feature and
\* MaxImp - v to the second
ModelImportance(v) == <<<<Q(v)>>, <<Q(MaxImp - v)>>>>

MatAdd(a, b) == Arr([r \in 1..Len(a) |-> RowAdd(a[r], b[r])])
MatSquare(a) == Arr([r \in 1..Len(a) |-> Arr([c \in 1..Len(a[r]) |-> RMul(a[r][c], a[r][c])])])

\* the mean over the accepted splits
RunningMean(sum, n) ==
    Arr([r \in 1..Len(sum) |-> Arr([c \in 1..Len(sum[r]) |-> RDiv(sum[r][c], Q(n))])])

\* the std over the accepted splits, from the sum and the sum of squares
RunningStd(sum, sum_of_squares, n) ==
    Arr([r \in 1..Len(sum) |-> Arr([c \in 1..Len(sum[r]) |->
        LET mean == RDiv(sum[r][c], Q(n))
        IN  Sqrt(RSub(RDiv(sum_of_squares[r][c], Q(n)), RMul(mean, mean)))])])

\* filter_by_distance_cutoff: the features beyond the contact cutoff are
\* marked -1 in both arrays
MarkFiltered(m, cut, mark) ==
    Arr([f \in 1..Len(m) |->
            IF f \in cut THEN Arr([c \in 1..Len(m[f]) |-> mark]) ELSE m[f]])

\* the position after a split: the next split, the next iteration, or the end
NextSplit(h, cfg) ==
    IF h.split < cfg.n_splits
    THEN [h EXCEPT !.pc = "train", !.split = @ + 1, !.model = None,
                   !.importance = None, !.importance_of = None]
    ELSE IF h.iteration < cfg.n_iterations
         THEN [h EXCEPT !.pc = "train", !.split = 1, !.iteration = @ + 1,
                        !.model = None, !.importance = None, !.importance_of = None]
         ELSE [h EXCEPT !.pc = "finalize", !.model = None,
                        !.importance = None, !.importance_of = None]

\* TrainedModel with a slip: one model serves every split
TrainedModel_Shared(h) == [iteration |-> 1, split |-> 1]

\* the model train() returns is the model of the split it was called for
TrainedModel(h) == [iteration |-> h.iteration, split |-> h.split]

\* EnoughSplits with a slip: one rejected split is enough to fail the run
EnoughSplits_NoneRejected(h) == h.n_accepted = h.splits_finished

\* the run has a result if at least one split was accepted
EnoughSplits(h) == h.n_accepted > 0

InitHarness ==
    \E iterations \in 1..MaxIterations, splits \in 2..MaxSplits, cutoff \in BOOLEAN :
       /\ inp = [n_iterations |-> iterations, n_splits |-> splits,
                 filter_by_distance_cutoff |-> cutoff]
       /\ heap = [ext_fi |-> None, ext_std |-> None]
       /\ extractor = [feature_importance |-> None,
                       std_feature_importance |-> None,
                       test_set_errors |-> None,
                       error_limit |-> None]
       /\ hs = [pc |-> "idle", iteration |-> 0, split |-> 0,
                model |-> None, importance |-> None, importance_of |-> None,
                error |-> None, models_trained |-> 0, splits_finished |-> 0, n_accepted |-> 0,
                sum |-> None, sum_of_squares |-> None, test_set_errors |-> <<>>]
       /\ pp = None
       /\ produced = None
       /\ numpy = [argsort_ties |-> "unset"]
       /\ last = Called("construct", NoException)

\* run, l.89-92: the error limit is set and extract_features() entered; the
\* aggregates are created
Run ==
    /\ hs.pc = "idle"
    /\ extractor' = [extractor EXCEPT !.error_limit = error_limit]
    /\ hs' = [hs EXCEPT !.pc = "train", !.iteration = 1, !.split = 1,
                        !.sum = Zeros(2, 1), !.sum_of_squares = Zeros(2, 1)]
    /\ last' = Called("run", NoException)
    /\ UNCHANGED <<heap, pp, produced, inp, numpy>>

\* train(train_set, train_labels) of the split's fold returns the split's model
Train ==
    /\ hs.pc = "train"
    /\ hs' = [hs EXCEPT !.pc = "importance",
                        !.models_trained = @ + 1,
                        !.model = TrainedModel(hs)]
    /\ last' = Called("train", NoException)
    /\ UNCHANGED <<heap, extractor, pp, produced, inp, numpy>>

\* the learner does not converge: the split is skipped and logged
TrainFails ==
    /\ hs.pc = "train"
    /\ hs' = [NextSplit(hs, inp) EXCEPT !.splits_finished = @ + 1]
    /\ last' = Called("train", "ConvergenceError")
    /\ UNCHANGED <<heap, extractor, pp, produced, inp, numpy>>

\* get_feature_importance(model, data, labels) on the model train() returned;
\* importance_of is the model the importance was taken from
GetFeatureImportance ==
    /\ hs.pc = "importance"
    /\ \E v \in 0..MaxImp :
          hs' = [hs EXCEPT !.pc = "error", !.importance = ModelImportance(v),
                           !.importance_of = hs.model]
    /\ last' = Called("get_feature_importance", NoException)
    /\ UNCHANGED <<heap, extractor, pp, produced, inp, numpy>>

\* the held-out error is recorded: the split is accumulated or discarded,
\* and its model dropped
RecordError ==
    /\ hs.pc = "error"
    /\ \E error \in ErrorValues :
          LET h == IF Accepts(error, extractor.error_limit)
                   THEN [hs EXCEPT !.n_accepted = @ + 1,
                                   !.sum = MatAdd(@, hs.importance),
                                   !.sum_of_squares = MatAdd(@, MatSquare(hs.importance)),
                                   !.test_set_errors = Append(@, Q(error))]
                   ELSE hs
          IN  hs' = [NextSplit(h, inp) EXCEPT !.error = error,
                                               !.splits_finished = @ + 1]
    /\ last' = Called("record_error", NoException)
    /\ UNCHANGED <<heap, extractor, pp, produced, inp, numpy>>

\* after the last split: the aggregates become the extractor's arrays
Finalize ==
    /\ hs.pc = "finalize"
    /\ EnoughSplits(hs)
    /\ LET cut == IF inp.filter_by_distance_cutoff THEN {1} ELSE {}
       IN  heap' = [heap EXCEPT
                !.ext_fi = MarkFiltered(RunningMean(hs.sum, hs.n_accepted), cut, Q(-1)),
                !.ext_std = MarkFiltered(RunningStd(hs.sum, hs.sum_of_squares, hs.n_accepted),
                                         cut, Sqrt(Q(1)))]
    /\ extractor' = [extractor EXCEPT !.feature_importance = "ext_fi",
                                      !.std_feature_importance = "ext_std",
                                      !.test_set_errors = hs.test_set_errors]
    /\ hs' = [hs EXCEPT !.pc = "done"]
    /\ last' = Called("extract_features", NoException)
    /\ UNCHANGED <<pp, produced, inp, numpy>>

\* after the last split, with every split rejected: the harness fails
FinalizeFails ==
    /\ hs.pc = "finalize"
    /\ ~EnoughSplits(hs)
    /\ hs' = [hs EXCEPT !.pc = "failed"]
    /\ last' = Called("extract_features", "InsufficientValidSplits")
    /\ UNCHANGED <<heap, extractor, pp, produced, inp, numpy>>

NextHarness ==
    \/ Run \/ Train \/ TrainFails \/ GetFeatureImportance \/ RecordError
    \/ Finalize \/ FinalizeFails

SpecHarness == InitHarness /\ [][NextHarness]_vars

(***************************** extractor strategies *************************)
\* a new array object in the heap
Alloc(h, name, value) == (name :> value) @@ h

\* ArgMax with a slip: the last index of the maximum
ArgMax_Last(row) ==
    LET m == RMaxSeq(row)
    IN  CHOOSE j \in 1..Len(row) : row[j] = m /\ \A k \in (j + 1)..Len(row) : row[k] # m

\* row.argmax(): the first index of the maximum
ArgMax(row) ==
    LET m == RMaxSeq(row)
    IN  CHOOSE j \in 1..Len(row) : row[j] = m /\ \A k \in 1..(j - 1) : row[k] # m

\* frames_per_cluster with a slip: every frame is counted for every cluster
frames_per_cluster_AllFrames(labels, c) == Len(labels)

\* frames_per_cluster: the number of frames whose label row peaks at c
frames_per_cluster(labels, c) ==
    Cardinality({i \in 1..Len(labels) : ArgMax(labels[i]) = c})

\* the frames of cluster c, in order
FramesOf(labels, c) ==
    SelectIdx(Arr([i \in 1..Len(labels) |-> i]),
              {i \in 1..Len(labels) : ArgMax(labels[i]) = c}, 1)

\* relprop.relevance_propagation / RelevancePropagator.propagate: the
\* relevance of every input entry, a new array of the shape of the input;
\* the trained model is held as the relevance its weights give (classifier.relevance)
relevance_propagation(classifier, X, T) ==
    Arr([i \in 1..Len(X) |-> Arr([f \in 1..Len(X[i]) |-> classifier.relevance[i][f]])])

\* MlpFeatureExtractor.get_feature_importance: the heap after the call, the
\* result in the object "result"
mlp_get_feature_importance(h, classifier, data, labels) ==
    LET h1 == Alloc(h, "data_propagation", h[data])
        h2 == Alloc(h1, "labels_propagation", h1[labels])
        h3 == Alloc(h2, "relevance",
                    relevance_propagation(classifier, h2["data_propagation"],
                                          h2["labels_propagation"]))
        nclusters == NCols(h3[labels])
        nfeatures == NCols(h3["relevance"])
        result == Arr([f \in 1..nfeatures |-> Arr([c \in 1..nclusters |->
                    LET frames == FramesOf(h3[labels], c)
                    IN  RSum(Arr([k \in 1..Len(frames) |->
                            RDiv(h3["relevance"][frames[k]][f],
                                 Q(frames_per_cluster(h3[labels], c)))]))])])
    IN  Alloc(h3, "result", result)

\* x / (range + 1e-9), kept as the numerator and the range
EpsQuot(x, range) == [num |-> x, range |-> range]

\* rbm_clip_negative with a slip: the frame of the data is clipped
rbm_clip_negative_OnData(h, data, i) ==
    [h EXCEPT ![data][i] =
        Arr([f \in 1..Len(@) |-> IF RLt(h["relevance"][i][f], Zero) THEN Zero ELSE @[f]])]

\* rbm_clip_negative with a slip: nothing is clipped
rbm_clip_negative_Skip(h, data, i) == h

\* l.82-83: relevance[i, ind_negative] = 0
rbm_clip_negative(h, data, i) ==
    [h EXCEPT !["relevance"][i] =
        Arr([f \in 1..Len(@) |-> IF RLt(@[f], Zero) THEN Zero ELSE @[f]])]

\* l.84-85: relevance[i, :] = (relevance[i, :] - min) / (max - min + 1e-9)
rbm_rescale_frame(h, i) ==
    [h EXCEPT !["relevance"][i] =
        LET lo == RMinSeq(@)
            hi == RMaxSeq(@)
        IN  Arr([f \in 1..Len(@) |-> EpsQuot(RSub(@[f], lo), RSub(hi, lo))])]

\* the loop over the frames, from frame i on
RECURSIVE rbm_rescale_loop(_, _, _)
rbm_rescale_loop(h, data, i) ==
    IF i > Len(h["relevance"]) THEN h
    ELSE rbm_rescale_loop(rbm_rescale_frame(rbm_clip_negative(h, data, i), i), data, i + 1)

\* RbmFeatureExtractor.get_feature_importance, relevance_method "from_lrp":
\* an entry of the result is the sum of its terms divided by `over`
rbm_from_lrp(h, classifier, data, labels) ==
    LET \* classifier.transform(data): a new array, one row per frame
        h1 == Alloc(h, "labels_propagation",
                    Arr([i \in 1..Len(h[data]) |-> <<One>>]))
        h2 == Alloc(h1, "relevance",
                    relevance_propagation(classifier, h1[data], h1["labels_propagation"]))
        h3 == rbm_rescale_loop(h2, data, 1)
        nclusters == NCols(h3[labels])
        nfeatures == NCols(h3[data])
        result == Arr([f \in 1..nfeatures |-> Arr([c \in 1..nclusters |->
                    LET frames == FramesOf(h3[labels], c)
                    IN  [terms |-> Arr([k \in 1..Len(frames) |->
                                        h3["relevance"][frames[k]][f]]),
                         over |-> frames_per_cluster(h3[labels], c)]])])
    IN  Alloc(h3, "result", result)

\* rbm_raises with a slip: an unknown method falls back to a supported one
rbm_raises_Fallback(relevance_method) == NoException

\* what get_feature_importance raises for a relevance method (l.113-114)
rbm_raises(relevance_method) ==
    IF relevance_method \in {"from_lrp", "from_components"}
    THEN NoException ELSE "Exception"

(***************************** linear algebra *******************************)
Transpose(m) == Arr([c \in 1..NCols(m) |-> Arr([r \in 1..Len(m) |-> m[r][c]])])

\* np.matmul(a, b)
MatMul(a, b) ==
    Arr([r \in 1..Len(a) |-> Arr([c \in 1..NCols(b) |->
        RSum(Arr([k \in 1..Len(b) |-> RMul(a[r][k], b[k][c])]))])])

\* np.eye(n) * alpha
ScaledEye(n, alpha) ==
    Arr([r \in 1..n |-> Arr([c \in 1..n |-> IF r = c THEN alpha ELSE Zero])])

\* m without row i and column j
Minor(m, i, j) ==
    LET rows == SelectIdx(m, (1..Len(m)) \ {i}, 1)
    IN  Arr([r \in 1..Len(rows) |-> SelectIdx(rows[r], (1..Len(m)) \ {j}, 1)])

RECURSIVE Det(_)
Det(m) ==
    IF Len(m) = 1 THEN m[1][1]
    ELSE RSum(Arr([j \in 1..Len(m) |->
            RMul(RMul(Q(IF j % 2 = 1 THEN 1 ELSE -1), m[1][j]), Det(Minor(m, 1, j)))]))

\* np.linalg.inv(m): the inverse, None for a singular matrix (LinAlgError)
Inverse(m) ==
    LET d == Det(m)
    IN  IF d = Zero THEN None
        ELSE Arr([r \in 1..Len(m) |-> Arr([c \in 1..Len(m) |->
                IF Len(m) = 1 THEN RDiv(One, d)
                ELSE RDiv(RMul(Q(IF (r + c) % 2 = 0 THEN 1 ELSE -1),
                               Det(Minor(m, c, r))), d)])])

(***************************** ELM ******************************************)
\* _g_ELM: the activation of the hidden layer.  The logistic sigmoid of a
\* pre-activation other than 0 is not a rational: it is held as [expit |-> x]
Expit(x) == IF x = Zero THEN Rat(1, 2) ELSE [expit |-> x]

g_ELM_raises(activation_func) ==
    IF activation_func \in {"relu", "logistic_sigmoid"} THEN NoException ELSE "Exception"

g_ELM(x, activation_func) ==
    Arr([r \in 1..Len(x) |-> Arr([c \in 1..Len(x[r]) |->
        IF activation_func = "relu"
        THEN (IF RLt(Zero, x[r][c]) THEN x[r][c] ELSE Zero)
        ELSE Expit(x[r][c])])])

\* inner += np.matmul(tikonov_matrix.T, tikonov_matrix)
AddTikonov(inner, alpha) ==
    IF alpha = None THEN inner
    ELSE LET tikonov_matrix == ScaledEye(Len(inner), alpha)
         IN  MatAdd(inner, MatMul(Transpose(tikonov_matrix), tikonov_matrix))

\* pseudo_inverse with a slip: the dual form is used whatever the primal matrix is
pseudo_inverse_DualOnly(x, alpha) ==
    LET dual == Inverse(AddTikonov(MatMul(x, Transpose(x)), alpha))
    IN  IF dual # None THEN MatMul(Transpose(x), dual) ELSE None

\* _pseudo_inverse: the regularised pseudo-inverse, by the dual form when
\* the primal Gram matrix is singular; None when that one is singular too
\* (the LinAlgError leaves the except block)
pseudo_inverse(x, alpha) ==
    LET inv == Inverse(AddTikonov(MatMul(Transpose(x), x), alpha))
        dual == Inverse(AddTikonov(MatMul(x, Transpose(x)), alpha))
    IN  IF inv # None THEN MatMul(inv, Transpose(x))
        ELSE IF dual # None THEN MatMul(Transpose(x), dual)
        ELSE None

\* x + b1: the bias row added to every row
AddBias(x, b) == Arr([r \in 1..Len(x) |-> RowAdd(x[r], b[1])])

\* SingleLayerELMClassifier.fit(x, t) with the random draws W1 and b1: the
\* classifier it leaves and what it raises
elm_fit(clf, h, x, t, W1, b1) ==
    IF g_ELM_raises(clf.activation_func) # NoException
    THEN [clf |-> clf, raised |-> g_ELM_raises(clf.activation_func)]
    ELSE LET H == g_ELM(AddBias(MatMul(h[x], W1), b1), clf.activation_func)
             pinv == pseudo_inverse(H, clf.alpha)
         IN  IF pinv = None
             THEN [clf |-> clf, raised |-> "LinAlgError"]
             ELSE [clf |-> [clf EXCEPT !.coefs_ = <<W1, MatMul(pinv, h[t])>>,
                                       !.intercepts_ = <<b1, Zeros(1, NCols(h[t]))>>],
                   raised |-> NoException]

\* l.92-94: t[row_idx, :] = 0; t[row_idx, c_idx] = 1
elm_one_hot_row(h, row_idx) ==
    LET c_idx == ArgMax(h["t"][row_idx])
    IN  [h EXCEPT !["t"][row_idx] =
            Arr([c \in 1..Len(@) |-> IF c = c_idx THEN One ELSE Zero])]

RECURSIVE elm_one_hot_loop(_, _)
elm_one_hot_loop(h, row_idx) ==
    IF row_idx > Len(h["t"]) THEN h
    ELSE elm_one_hot_loop(elm_one_hot_row(h, row_idx), row_idx + 1)

\* SingleLayerELMClassifier.predict(x): the heap after the call, the
\* prediction in the object "t"
elm_predict(clf, h, x) ==
    LET H == g_ELM(AddBias(MatMul(h[x], clf.coefs_[1]), clf.intercepts_[1]),
                   clf.activation_func)
    IN  elm_one_hot_loop(Alloc(h, "t", MatMul(H, clf.coefs_[2])), 1)

\* SingleLayerELMClassifier.__init__: what it raises for hidden_layer_sizes,
\* held as [type |-> "int" or "tuple", value |-> the sizes, as a sequence]
elm_init_raises(hidden_layer_sizes) ==
    IF hidden_layer_sizes.type = "int" THEN "TypeError"       \* len() of an int
    ELSE IF Len(hidden_layer_sizes.value) # 1 THEN "Exception"
    ELSE NoException

(***************************** one split ************************************)
\* the sample matrices (frames x features); the label matrices have one-hot rows
SampleMatrices ==
    { << <<Q(1), Q(2)>> >>,
      << <<Q(1), Q(0)>>, <<Q(0), Q(1)>> >>,
      << <<Q(1), Q(1)>>, <<Q(0), Q(2)>> >> }

OneHotRows == {<<One, Zero>>, <<Zero, One>>}

\* the relevance a trained model can assign to the entries of the data
Relevances(nframes, nfeatures) == [1..nframes -> [1..nfeatures -> {Q(-1), Q(2)}]]

\* the draws of _random_matrix
RandomMatrices(rows, cols) == [1..rows -> [1..cols -> {Rat(-1, 4), Rat(1, 4)}]]

\* the extractors a run is configured with
ExtractorConfigs ==
    {[kind |-> "mlp"]}
    \cup {[kind |-> "rbm", relevance_method |-> m] : m \in {"from_lrp", "from_weights"}}
    \cup {[kind |-> "elm", hidden_layer_sizes |-> [type |-> "tuple", value |-> <<n>>],
           activation_func |-> "relu", alpha |-> a] : n \in {1, 2}, a \in {None, One}}
    \cup {[kind |-> "elm", hidden_layer_sizes |-> [type |-> "tuple", value |-> <<1, 1>>],
           activation_func |-> "relu", alpha |-> One],
          [kind |-> "elm", hidden_layer_sizes |-> [type |-> "int", value |-> <<1>>],
           activation_func |-> "relu", alpha |-> One],
          [kind |-> "elm", hidden_layer_sizes |-> [type |-> "tuple", value |-> <<1>>],
           activation_func |-> "tanh", alpha |-> One]}

InitExtract ==
    \E D \in SampleMatrices, config \in ExtractorConfigs :
    \E L \in [1..Len(D) -> OneHotRows] :
       /\ heap = [samples |-> D, labels |-> L]
       /\ produced = [samples |-> D, labels |-> L]
       /\ extractor = [samples |-> "samples", labels |-> "labels",
                       config |-> config, classifier |-> None]
       /\ inp = [data |-> "samples", labels |-> "labels"]
       /\ hs = [pc |-> "split"]
       /\ pp = None
       /\ numpy = [argsort_ties |-> "unset"]
       /\ last = Called("construct", NoException)

\* the arrays that outlive a call
Inputs(h) == [samples |-> h.samples, labels |-> h.labels]

\* MlpFeatureExtractor.train / RbmFeatureExtractor.train: the library fits
\* the split's model on the fold
MlpRbmTrain ==
    /\ hs.pc = "split"
    /\ extractor.classifier = None
    /\ extractor.config.kind \in {"mlp", "rbm"}
    /\ \E relevance \in Relevances(Len(heap[inp.data]), NCols(heap[inp.data])) :
          extractor' = [extractor EXCEPT !.classifier =
                            [kind |-> extractor.config.kind, relevance |-> relevance]]
    /\ last' = Called("train", NoException)
    /\ UNCHANGED <<heap, pp, produced, inp, numpy, hs>>

\* ElmFeatureExtractor.train: SingleLayerELMClassifier(**kwargs).fit(x, t)
ElmTrain ==
    /\ hs.pc = "split"
    /\ extractor.classifier = None
    /\ extractor.config.kind = "elm"
    /\ LET config == extractor.config
           hidden == config.hidden_layer_sizes.value[1]
       IN  IF elm_init_raises(config.hidden_layer_sizes) # NoException
           THEN /\ last' = Called("elm_train", elm_init_raises(config.hidden_layer_sizes))
                /\ UNCHANGED extractor
           ELSE \E W1 \in RandomMatrices(NCols(heap[inp.data]), hidden),
                   b1 \in RandomMatrices(1, hidden),
                   relevance \in {[i \in 1..Len(heap[inp.data]) |->
                                     [f \in 1..NCols(heap[inp.data]) |-> Q(v)]] :
                                  v \in {-1, 2}} :
                   LET elm == [kind |-> "elm",
                               hidden_layer_sizes |-> config.hidden_layer_sizes.value,
                               activation_func |-> config.activation_func,
                               alpha |-> config.alpha,
                               coefs_ |-> None, intercepts_ |-> None,
                               relevance |-> relevance]
                       r == elm_fit(elm, heap, inp.data, inp.labels, W1, b1)
                   IN  /\ last' = Called("elm_train", r.raised)
                       /\ extractor' = IF r.raised = NoException
                                       THEN [extractor EXCEPT !.classifier = r.clf]
                                       ELSE extractor
    /\ UNCHANGED <<heap, pp, produced, inp, numpy, hs>>

\* get_feature_importance(classifier, data, labels) of the MLP and ELM extractors
MlpGetFeatureImportance ==
    /\ hs.pc = "split"
    /\ extractor.classifier # None
    /\ extractor.classifier.kind \in {"mlp", "elm"}
    /\ LET h == mlp_get_feature_importance(heap, extractor.classifier,
                                           inp.data, inp.labels)
       IN  heap' = Inputs(h) @@ [result |-> h["result"]]
    /\ last' = Called("mlp_get_feature_importance", NoException)
    /\ UNCHANGED <<extractor, pp, produced, inp, numpy, hs>>

\* get_feature_importance(classifier, data, labels) of the RBM extractor
RbmGetFeatureImportance ==
    /\ hs.pc = "split"
    /\ extractor.classifier # None
    /\ extractor.classifier.kind = "rbm"
    /\ IF rbm_raises(extractor.config.relevance_method) # NoException
       THEN /\ heap' = Inputs(heap)
            /\ last' = Called("rbm_get_feature_importance",
                              rbm_raises(extractor.config.relevance_method))
       ELSE LET h == rbm_from_lrp(heap, extractor.classifier, inp.data, inp.labels)
            IN  /\ heap' = Inputs(h) @@ [result |-> h["result"]]
                /\ last' = Called("rbm_get_feature_importance", NoException)
    /\ UNCHANGED <<extractor, pp, produced, inp, numpy, hs>>

\* classifier.predict(x) of a fitted ELM
ElmPredict ==
    /\ hs.pc = "split"
    /\ extractor.classifier # None
    /\ extractor.classifier.kind = "elm"
    /\ LET h == elm_predict(extractor.classifier, heap, inp.data)
       IN  heap' = Inputs(h) @@ [t |-> h["t"]]
    /\ last' = Called("elm_predict", NoException)
    /\ UNCHANGED <<extractor, pp, produced, inp, numpy, hs>>

NextExtract ==
    \/ MlpRbmTrain \/ ElmTrain \/ MlpGetFeatureImportance \/ RbmGetFeatureImportance
    \/ ElmPredict

\* a split of the harness, or the post-processing of a finished run
InitPipeline == InitExtract \/ InitPP
NextPipeline == NextExtract \/ NextPP
SpecPipeline == InitPipeline /\ [][NextPipeline]_vars

(***************************** PCA and random forest ************************)
\* the features of the data set of a PCA or random-forest run, at most
MaxFeatures == 3

\* the explained-variance ratios are multiples of 1 / VarianceSteps
VarianceSteps == 4

\* the clusters of a PCA or random-forest run, at most
MaxClusters == 3

\* an n-dimensional array: its shape and its entries
NdArray(shape, values) == [shape |-> shape, values |-> values]

\* the default of the constructor's variance_cutoff argument, 0.75
variance_cutoff_default == Rat(3, 4)

\* PCAFeatureExtractor.__init__: the fields the constructor sets
pca_init(variance_cutoff, n_components) ==
    [kind |-> "pca", n_components |-> n_components, variance_cutoff |-> Rat(3, 4)]

\* _get_n_components, the loop for i in range(1, explained_var.shape[0]):
\* i is the 0-based index, explained_var[i] is explained_var[i + 1] here
RECURSIVE get_n_components_loop(_, _, _, _, _, _)
get_n_components_loop(self, explained_var, n_clusters, i, total_var_explained, n_components) ==
    IF i >= Len(explained_var) THEN n_components
    ELSE IF /\ RLt(RAdd(total_var_explained, explained_var[i + 1]), self.variance_cutoff)
            /\ i < n_clusters
         THEN get_n_components_loop(self, explained_var, n_clusters, i + 1,
                                    RAdd(total_var_explained, explained_var[i + 1]),
                                    n_components + 1)
         ELSE get_n_components_loop(self, explained_var, n_clusters, i + 1,
                                    total_var_explained, n_components)

\* PCAFeatureExtractor._get_n_components
get_n_components(self, model, n_clusters) ==
    get_n_components_loop(self, model.explained_variance_ratio_, n_clusters, 1,
                          model.explained_variance_ratio_[1], 1)

RAbs(x) == [n |-> Abs(x.n), d |-> x.d]

\* PCAFeatureExtractor._collect_components: the absolute values of the first
\* n_components components, each scaled by its explained variance, transposed
collect_components(model, n_components) ==
    Transpose(Arr([i \in 1..n_components |->
                Arr([f \in 1..Len(model.components_[i]) |->
                    RAbs(RMul(model.components_[i][f], model.explained_variance_[i]))])]))

\* PCAFeatureExtractor.get_feature_importance; n_components is None or <<k>>
pca_get_feature_importance(self, model, n_clusters) ==
    LET n_components == IF self.n_components = None
                        THEN get_n_components(self, model, n_clusters)
                        ELSE self.n_components[1]
        feature_importances == collect_components(model, n_components)
    IN  NdArray(<<Len(feature_importances), Len(feature_importances[1])>>,
                feature_importances)

\* RandomForestFeatureExtractor.get_feature_importance
rf_get_feature_importance(classifier) == classifier.feature_importances_

\* the explained-variance ratios of a fitted PCA with len components: descending,
\* positive, with the sum 1
VarianceRatios(len) ==
    {Arr([i \in 1..len |-> Rat(s[i], VarianceSteps)]) :
        s \in {s \in [1..len -> 1..VarianceSteps] :
                  /\ \A i \in 1..(len - 1) : s[i] >= s[i + 1]
                  /\ RSum(Arr([i \in 1..len |-> Q(s[i])])) = Q(VarianceSteps)}}

\* the fitted PCA models: sklearn keeps min(n_components, n_features)
\* components, ordered by explained variance
PcaModels(n_features, n_components) ==
    LET kept == IF n_components = None THEN n_features ELSE n_components[1]
    IN  {[explained_variance_ratio_ |-> SubSeq(ratios, 1, kept),
          explained_variance_ |->
              Arr([i \in 1..kept |-> RMul(ratios[i], Q(total))]),
          components_ |->
              Arr([i \in 1..kept |-> Arr([f \in 1..n_features |->
                      IF f = i THEN Q(sign) ELSE Zero])])] :
         ratios \in VarianceRatios(n_features), total \in {1, 2}, sign \in {-1, 1}}

\* the fitted random forests: sklearn's feature_importances_ is a vector
\* with one entry per feature
RfModels(n_features) ==
    {[feature_importances_ |-> NdArray(<<n_features>>, ratios)] :
        ratios \in VarianceRatios(n_features)}

\* the configurations of a run: the constructor's arguments and the
\* dimensions of the data
ComponentConfigs ==
    {[kind |-> "pca", variance_cutoff |-> cutoff, n_components |-> n,
      n_features |-> f, n_clusters |-> c] :
        cutoff \in {variance_cutoff_default, Rat(1, 2), One},
        n \in {None} \cup {<<k>> : k \in 1..MaxFeatures},
        f \in 1..MaxFeatures, c \in 1..MaxClusters}
    \cup {[kind |-> "rf", n_features |-> f, n_clusters |-> c] :
            f \in 1..MaxFeatures, c \in 1..MaxClusters}

InitComponents ==
    \E config \in ComponentConfigs :
       /\ IF config.kind = "pca" /\ config.n_components # None
          THEN config.n_components[1] <= config.n_features
          ELSE TRUE
       /\ inp = config
       /\ extractor = None
       /\ heap = [result |-> None]
       /\ hs = [pc |-> "new"]
       /\ pp = None
       /\ produced = None
       /\ numpy = [argsort_ties |-> "unset"]
       /\ last = Called("start", NoException)

\* PCAFeatureExtractor(samples, cluster_indices, variance_cutoff=..., n_components=...)
PcaConstruct ==
    /\ hs.pc = "new"
    /\ inp.kind = "pca"
    /\ extractor' = pca_init(inp.variance_cutoff, inp.n_components)
              @@ [classifier |-> None]
    /\ hs' = [pc |-> "constructed"]
    /\ last' = Called("pca_init", NoException)
    /\ UNCHANGED <<heap, pp, produced, inp, numpy>>

\* RandomForestFeatureExtractor(samples, cluster_indices)
RfConstruct ==
    /\ hs.pc = "new"
    /\ inp.kind = "rf"
    /\ extractor' = [kind |-> "rf", classifier |-> None]
    /\ hs' = [pc |-> "constructed"]
    /\ last' = Called("rf_init", NoException)
    /\ UNCHANGED <<heap, pp, produced, inp, numpy>>

\* PCAFeatureExtractor.train: PCA(n_components=self.n_components).fit(train_set)
PcaTrain ==
    /\ hs.pc = "constructed"
    /\ extractor.kind = "pca"
    /\ \E model \in PcaModels(inp.n_features, extractor.n_components) :
          extractor' = [extractor EXCEPT !.classifier = model]
    /\ hs' = [pc |-> "trained"]
    /\ last' = Called("pca_train", NoException)
    /\ UNCHANGED <<heap, pp, produced, inp, numpy>>

\* RandomForestFeatureExtractor.train: RandomForestClassifier(...).fit(...)
RfTrain ==
    /\ hs.pc = "constructed"
    /\ extractor.kind = "rf"
    /\ \E classifier \in RfModels(inp.n_features) :
          extractor' = [extractor EXCEPT !.classifier = classifier]
    /\ hs' = [pc |-> "trained"]
    /\ last' = Called("rf_train", NoException)
    /\ UNCHANGED <<heap, pp, produced, inp, numpy>>

\* get_feature_importance(model, samples, labels) of the PCA extractor;
\* labels.shape[1] is the number of clusters
PcaGetFeatureImportance ==
    /\ hs.pc = "trained"
    /\ extractor.kind = "pca"
    /\ heap' = [result |-> pca_get_feature_importance(extractor, extractor.classifier,
                                                      inp.n_clusters)]
    /\ hs' = [pc |-> "returned"]
    /\ last' = Called("pca_get_feature_importance", NoException)
    /\ UNCHANGED <<extractor, pp, produced, inp, numpy>>

\* get_feature_importance(classifier, data, labels) of the random-forest extractor
RfGetFeatureImportance ==
    /\ hs.pc = "trained"
    /\ extractor.kind = "rf"
    /\ heap' = [result |-> rf_get_feature_importance(extractor.classifier)]
    /\ hs' = [pc |-> "returned"]
    /\ last' = Called("rf_get_feature_importance", NoException)
    /\ UNCHANGED <<extractor, pp, produced, inp, numpy>>

NextComponents ==
    \/ PcaConstruct \/ RfConstruct \/ PcaTrain \/ RfTrain
    \/ PcaGetFeatureImportance \/ RfGetFeatureImportance

SpecComponents == InitComponents /\ [][NextComponents]_vars

(***************************** relevance propagation ************************)
\* the outputs of the linear layer of a propagation, at most
MaxOutputs == 2

\* a relevance share num / (den + epsilon), the epsilon kept symbolic
Share(num, den) == [num |-> num, den |-> den]

\* Linear.forward: the pre-activation output x W + B of one frame
linear_forward(layer, x) ==
    Arr([j \in 1..Len(layer.B) |->
        RAdd(RSum(Arr([i \in 1..Len(x) |-> RMul(x[i], layer.W[i][j])])), layer.B[j])])

\* the summed weighted contributions of a frame to output j
contributions(layer, x, j) ==
    RSum(Arr([i \in 1..Len(x) |-> RMul(x[i], layer.W[i][j])]))

\* linear_relprop with a slip: every input gets the whole contribution sum
linear_relprop_Unweighted(layer, x, R) ==
    Arr([i \in 1..Len(x) |-> Arr([j \in 1..Len(R) |->
        Share(RMul(contributions(layer, x, j), R[j]), contributions(layer, x, j))])])

\* the backward rule of a linear layer for one frame: the relevance R[j] of
\* output j goes to input i in proportion to the signed weighted
\* contribution x[i] W[i][j], the sum of the contributions plus epsilon being
\* the divisor; the relevance of input i is the sum of its shares
linear_relprop(layer, x, R) ==
    Arr([i \in 1..Len(x) |-> Arr([j \in 1..Len(R) |->
        Share(RMul(RMul(x[i], layer.W[i][j]), R[j]), contributions(layer, x, j))])])

\* RelevancePropagator.propagate for a network of one linear layer: the
\* forward pass, then the backward pass from the output relevance T
propagate(layers, X, T) ==
    [Y |-> Arr([n \in 1..Len(X) |-> linear_forward(layers[1], X[n])]),
     relevance |-> Arr([n \in 1..Len(X) |-> linear_relprop(layers[1], X[n], T[n])])]

\* the frames of a batch: two features each
RelpropFrames == {<<Q(a), Q(b)>> : a \in {0, 1}, b \in {-1, 0, 1}}

\* the batches: one frame, or a frame and its mirror image
RelpropBatches ==
    {<<x>> : x \in RelpropFrames} \cup {<<x, <<x[2], x[1]>> >> : x \in RelpropFrames}

\* the output relevance of a frame: a one-hot row, or no relevance at all
RelpropTargets(outputs) ==
    {Arr([j \in 1..outputs |-> IF j = hot THEN One ELSE Zero]) : hot \in 0..outputs}

\* the linear layers: weights -1 or 1, one bias for all outputs
RelpropLayers(outputs) ==
    {[kind |-> "linear", W |-> Arr([i \in 1..2 |-> Arr(w[i])]),
      B |-> Arr([j \in 1..outputs |-> Q(b)])] :
        w \in [1..2 -> [1..outputs -> {Q(-1), One}]], b \in {0, 1}}

InitRelprop ==
    \E outputs \in 1..MaxOutputs :
    \E layer \in RelpropLayers(outputs), X \in RelpropBatches :
    \E T \in [1..Len(X) -> RelpropTargets(outputs)] :
       /\ inp = [layers |-> <<layer>>, X |-> X, T |-> Arr(T)]
       /\ heap = [relevance |-> None, Y |-> None]
       /\ extractor = None
       /\ hs = [pc |-> "new"]
       /\ pp = None
       /\ produced = None
       /\ numpy = [argsort_ties |-> "unset"]
       /\ last = Called("start", NoException)

\* RelevancePropagator(layers).propagate(X, T)
Propagate ==
    /\ hs.pc = "new"
    /\ LET r == propagate(inp.layers, inp.X, inp.T)
       IN  heap' = [relevance |-> r.relevance, Y |-> r.Y]
    /\ hs' = [pc |-> "propagated"]
    /\ last' = Called("propagate", NoException)
    /\ UNCHANGED <<extractor, pp, produced, inp, numpy>>

NextRelprop == Propagate

SpecRelprop == InitRelprop /\ [][NextRelprop]_vars

(***************************** ELM classifier *******************************)
\* the default of the constructor's hidden_layer_sizes argument, (1000): an int
hidden_layer_sizes_default == 1000

\* SingleLayerELMClassifier.predict(x): what it raises.  self.coefs_[0] is
\* evaluated before _g_ELM is entered: of an unfitted classifier it is None[0]
elm_predict_raises(clf) ==
    IF clf.coefs_ = None THEN "TypeError"
    ELSE g_ELM_raises(clf.activation_func)

\* the constructor's arguments
ElmArguments ==
    {[hidden_layer_sizes |-> h, activation_func |-> a, alpha |-> One] :
        h \in {[type |-> "tuple", value |-> v] : v \in {<<>>, <<1>>, <<2>>, <<1, 1>>}}
              \cup {[type |-> "int", value |-> <<n>>] :
                       n \in {1, hidden_layer_sizes_default}},
        a \in {"relu", "tanh", "identity"}}
    \cup {[hidden_layer_sizes |-> [type |-> "tuple", value |-> <<n>>],
           activation_func |-> "relu", alpha |-> a] :
              n \in {1, 2}, a \in {None, Zero, Q(2)}}

InitElm ==
    \E D \in SampleMatrices, arguments \in ElmArguments :
    \E L \in [1..Len(D) -> OneHotRows] :
       /\ heap = [samples |-> D, labels |-> L]
       /\ produced = [samples |-> D, labels |-> L]
       /\ inp = arguments
       /\ extractor = None
       /\ hs = [pc |-> "new"]
       /\ pp = None
       /\ numpy = [argsort_ties |-> "unset"]
       /\ last = Called("start", NoException)

\* SingleLayerELMClassifier(hidden_layer_sizes, activation_func, alpha)
ElmConstruct ==
    /\ hs.pc = "new"
    /\ IF elm_init_raises(inp.hidden_layer_sizes) # NoException
       THEN /\ hs' = [pc |-> "rejected"]
            /\ UNCHANGED extractor
       ELSE /\ hs' = [pc |-> "constructed"]
            /\ extractor' = [kind |-> "elm",
                             hidden_layer_sizes |-> inp.hidden_layer_sizes.value,
                             activation_func |-> inp.activation_func,
                             alpha |-> inp.alpha,
                             coefs_ |-> None, intercepts_ |-> None]
    /\ last' = Called("elm_init", elm_init_raises(inp.hidden_layer_sizes))
    /\ UNCHANGED <<heap, pp, produced, inp, numpy>>

\* classifier.fit(x, t); the draws of _random_matrix are kept in hs
ElmFit ==
    /\ hs.pc = "constructed"
    /\ \E W1 \in RandomMatrices(NCols(heap.samples), extractor.hidden_layer_sizes[1]),
          b1 \in RandomMatrices(1, extractor.hidden_layer_sizes[1]) :
          LET r == elm_fit(extractor, heap, "samples", "labels", W1, b1)
          IN  /\ extractor' = r.clf
              /\ last' = Called("elm_fit", r.raised)
              /\ hs' = [pc |-> "fit_called", W1 |-> W1, b1 |-> b1]
    /\ UNCHANGED <<heap, pp, produced, inp, numpy>>

\* classifier.predict(x), of a classifier fit() was or was not called on
ElmPredictCall ==
    /\ hs.pc \in {"constructed", "fit_called"}
    /\ IF elm_predict_raises(extractor) # NoException
       THEN UNCHANGED heap
       ELSE LET h == elm_predict(extractor, heap, "samples")
            IN  heap' = Inputs(h) @@ [t |-> h["t"]]
    /\ last' = Called("elm_predict", elm_predict_raises(extractor))
    /\ hs' = [pc |-> "predict_called"]
    /\ UNCHANGED <<extractor, pp, produced, inp, numpy>>

NextElm == ElmConstruct \/ ElmFit \/ ElmPredictCall

SpecElm == InitElm /\ [][NextElm]_vars

(***************************** MLP extractor ********************************)
\* MlpFeatureExtractor.__init__: the fields it sets, what it raises and
\* whether it logs the warning that relevance propagation supports relu only
mlp_init(activation) ==
    [extractor |-> [kind |-> "mlp", activation |-> activation, classifier |-> None],
     raised |-> NoException,
     warned |-> activation # "relu"]

\* the activations MLPClassifier knows
MlpActivations == {"relu", "logistic", "tanh", "identity"}

InitMlp ==
    \E D \in SampleMatrices, activation \in MlpActivations :
    \E L \in [1..Len(D) -> OneHotRows] :
       /\ heap = [samples |-> D, labels |-> L]
       /\ produced = [samples |-> D, labels |-> L]
       /\ inp = [activation |-> activation]
       /\ extractor = None
       /\ hs = [pc |-> "new", warned |-> FALSE]
       /\ pp = None
       /\ numpy = [argsort_ties |-> "unset"]
       /\ last = Called("start", NoException)

\* MlpFeatureExtractor(samples, labels, activation=...)
MlpConstruct ==
    /\ hs.pc = "new"
    /\ LET r == mlp_init(inp.activation)
       IN  /\ extractor' = IF r.raised = NoException THEN r.extractor ELSE extractor
           /\ hs' = [pc |-> IF r.raised = NoException THEN "constructed" ELSE "rejected",
                     warned |-> r.warned]
           /\ last' = Called("mlp_init", r.raised)
    /\ UNCHANGED <<heap, pp, produced, inp, numpy>>

\* MlpFeatureExtractor.train: MLPClassifier(activation=self.activation, ...)
\* is fitted on the fold
MlpTrain ==
    /\ hs.pc = "constructed"
    /\ \E relevance \in Relevances(Len(heap.samples), NCols(heap.samples)) :
          extractor' = [extractor EXCEPT !.classifier =
                            [kind |-> "mlp", activation |-> extractor.activation,
                             relevance |-> relevance]]
    /\ hs' = [hs EXCEPT !.pc = "trained"]
    /\ last' = Called("train", NoException)
    /\ UNCHANGED <<heap, pp, produced, inp, numpy>>

NextMlp == MlpConstruct \/ MlpTrain

SpecMlp == InitMlp /\ [][NextMlp]_vars

(******************* post-processing of a finished extractor *****************)
\* FeatureExtractor.__init__(..., supervised=...): the flag is kept on the
\* extractor
FeatureExtractor_init(kind, supervised) == [kind |-> kind, supervised |-> supervised]

\* PCAFeatureExtractor.__init__ hands supervised=False to the base class
pca_base_init == FeatureExtractor_init("pca", FALSE)

\* so does RbmFeatureExtractor.__init__
rbm_base_init == FeatureExtractor_init("rbm", FALSE)

\* PCAFeatureExtractor.postprocessing / RbmFeatureExtractor.postprocessing:
\* the value handed on to PostProcessor as supervised, whatever the argument
postprocessing_supervised(supervised) == FALSE

InitPostprocessing ==
    \E f2r \in {m \in FeatureMaps : Len(m) = 2 \/ Len(index_to_resid(m)) = 3} :
    \E ncl \in ClusterCounts :
    \* MlpFeatureExtractor.__init__ hands no flag: the base class's default, a
    \* supervised run
    \E base \in {pca_base_init, rbm_base_init, FeatureExtractor_init("mlp", TRUE)} :
    \E out \in HarnessOutputs(Len(f2r), ncl) :
       LET efi == Arr([f \in 1..Len(f2r) |-> Arr([c \in 1..ncl |-> Q(out.fi[f][c])])])
           esd == Arr([f \in 1..Len(f2r) |-> Arr([c \in 1..ncl |->
                      Sqrt(Q(out.sd[f][c] * out.sd[f][c]))])])
           smp == Arr([n \in 1..ncl |-> Arr([f \in 1..Len(f2r) |-> Q(n)])])
           lbl == Arr([n \in 1..ncl |-> Arr([c \in 1..ncl |->
                      IF c = n THEN One ELSE Zero])])
       IN  /\ heap = [ext_fi |-> efi, ext_std |-> esd, pp_fi |-> None, pp_std |-> None,
                      samples |-> smp, labels |-> lbl]
           /\ extractor = [kind |-> base.kind,
                           feature_importance |-> "ext_fi",
                           std_feature_importance |-> "ext_std",
                           supervised |-> base.supervised,
                           cluster_indices |-> [n \in 1..ncl |-> n - 1],
                           samples |-> "samples",
                           labels |-> "labels",
                           test_set_errors |-> <<Zero>>]
           /\ produced = [feature_importance |-> efi, std_feature_importance |-> esd,
                          samples |-> smp, labels |-> lbl]
           /\ inp = [feature_to_resids |-> f2r]
           /\ numpy = [argsort_ties |-> "unset"]
           /\ pp = None
           /\ last = Called("extract_features", NoException)
           /\ hs = NoHarness

\* p = PostProcessor(extractor, ..., supervised=..) of any extractor, or
\* p = extractor.postprocessing(..., supervised=..) of a PCA or RBM extractor
Postprocessing ==
    /\ hs.pc = "done"
    /\ pp = None
    /\ \E rescale_results \in BOOLEAN, filter_results \in BOOLEAN, supervised \in BOOLEAN :
       \E direct \in BOOLEAN :
       \E predefined \in PredefinedChoices(
                            Cardinality(SeqRange(extractor.cluster_indices)),
                            Len(index_to_resid(inp.feature_to_resids))) :
          LET r == PostProcessorInit(extractor, heap, rescale_results, filter_results,
                                     inp.feature_to_resids, predefined,
                                     IF direct THEN supervised
                                     ELSE postprocessing_supervised(supervised))
          IN  /\ direct \/ extractor.kind \in {"pca", "rbm"}
              /\ pp' = r.p
              /\ heap' = r.h
              /\ last' = Called(IF direct THEN "__init__" ELSE "postprocessing",
                                NoException)
    /\ UNCHANGED <<extractor, produced, inp, numpy, hs>>

NextPostprocessing == Postprocessing \/ Average \/ EvaluatePerformance

SpecPostprocessing == InitPostprocessing /\ [][NextPostprocessing]_vars

(***************************************************************************)
(*                               Claims                                    *)
(***************************************************************************)
Averaged == pp # None /\ pp.importance_per_residue # None

\* _map_feature_to_resids's arrays are still in the PostProcessor as it left
\* them: _compute_importance_per_residue_and_cluster has not rescaled them
RawMappedVisible ==
    /\ Averaged
    /\ ~(pp.supervised /\ pp.rescale_results)

\* how many of the two residues of feature f are the residue resid
Endpoints(f, resid) ==
    Cardinality({k \in 1..2 : inp.feature_to_resids[f][k] = resid})

\* the importance of cluster c summed over the endpoints that are residue r
EndpointSum(m, r, c) ==
    RSum(Arr([f \in 1..Len(m) |->
            RMul(Q(Endpoints(f, pp.index_to_resid[r])), m[f][c])]))

\* the variance of cluster c summed over the endpoints that are residue r
EndpointVarianceSum(sm, r, c) ==
    RSum(Arr([f \in 1..Len(sm) |->
            RMul(Q(Endpoints(f, pp.index_to_resid[r])), Square(sm[f][c]))]))

\* C1: _map_feature_to_resids adds the importance row of every feature to
\* both residues of its pair: importance_mapped_to_resids[r, c] is the sum of
\* feature_importances[f, c] over the features f and their two endpoints that
\* are residue r; with a single feature (a, b) of importance v and rescaling
\* off, both residues end with importance v
C1_SymmetricMapping ==
    RawMappedVisible =>
        LET fi == heap[pp.feature_importances]
            f2r == inp.feature_to_resids
        IN  /\ \A r \in 1..pp.nresidues, c \in 1..NCols(fi) :
                 pp.importance_mapped_to_resids[r][c] = EndpointSum(fi, r, c)
            /\ (Len(fi) = 1 /\ f2r[1][1] # f2r[1][2] /\ ~pp.rescale_results) =>
                 /\ pp.nresidues = 2
                 /\ \A r \in 1..2 :
                      /\ pp.importance_mapped_to_resids[r] = fi[1]
                      /\ pp.importance_per_residue[r] = RMean(fi[1])

C1_Witness ==
    /\ RawMappedVisible
    /\ ~pp.rescale_results
    /\ inp.feature_to_resids = << <<5, 9>> >>
    /\ heap[pp.feature_importances] = << <<Q(1)>> >>
    /\ pp.importance_mapped_to_resids = << <<Q(1)>>, <<Q(1)>> >>
    /\ pp.importance_per_residue = <<Q(1), Q(1)>>

\* C2 (as amended): std_out[r, c]^2 is the sum of std_feature_importances[f, c]^2
\* over the features f and their two endpoints that are residue r: a feature
\* whose two residues are both r is counted twice
C2_VariancePropagation ==
    RawMappedVisible =>
        LET sfi == heap[pp.std_feature_importances]
        IN  \A r \in 1..pp.nresidues, c \in 1..NCols(sfi) :
                Square(pp.std_importance_mapped_to_resids[r][c])
                    = EndpointVarianceSum(sfi, r, c)

\* C2 as claimed: std_out[r, c]^2 is the sum of std_feature_importances[f, c]^2
\* over the features f whose residue pair contains r
C2_AsClaimed ==
    RawMappedVisible =>
        LET sfi == heap[pp.std_feature_importances]
            f2r == inp.feature_to_resids
        IN  \A r \in 1..pp.nresidues, c \in 1..NCols(sfi) :
                Square(pp.std_importance_mapped_to_resids[r][c])
                    = RSum(SelectIdx(Arr([f \in 1..Len(sfi) |-> Square(sfi[f][c])]),
                                     {f \in 1..Len(sfi) :
                                        pp.index_to_resid[r] \in {f2r[f][1], f2r[f][2]}},
                                     1))

\* three features with non-zero dispersions meet in residue 1
C2_Witness ==
    /\ RawMappedVisible
    /\ inp.feature_to_resids = << <<1, 2>>, <<1, 3>>, <<1, 4>> >>
    /\ LET sfi == heap[pp.std_feature_importances]
       IN  /\ \A f \in 1..3 : Square(sfi[f][1]) # Zero
           /\ pp.std_importance_mapped_to_resids[1][1]
                = Sqrt(RAdd(Square(sfi[1][1]), RAdd(Square(sfi[2][1]), Square(sfi[3][1]))))

\* a column of rescaled importances: within [0, 1], and reaching both 0 and 1
\* unless it is all 0
InUnitInterval(col) == \A i \in 1..Len(col) : RLe(Zero, col[i]) /\ RLe(col[i], One)
AllZero(col) == \A i \in 1..Len(col) : col[i] = Zero
Rescaled(col) ==
    /\ InUnitInterval(col)
    /\ \/ AllZero(col)
       \/ /\ \E i \in 1..Len(col) : col[i] = One
          /\ \E i \in 1..Len(col) : col[i] = Zero

\* C3: with rescale_results, after average() every entry of
\* importance_per_residue and of every cluster column of
\* importance_per_residue_and_cluster lies in [0, 1]; the maximum of a column
\* is exactly 1 and its minimum exactly 0, and all its entries are 0 exactly
\* when the column's range before rescaling was 0
C3_RescaledRange ==
    (Averaged /\ pp.rescale_results) =>
        LET fi == heap[pp.feature_importances]
            raw == Arr([r \in 1..pp.nresidues |->
                        Arr([c \in 1..NCols(fi) |-> EndpointSum(fi, r, c)])])
            ipr == pp.importance_per_residue
            iprc == pp.importance_per_residue_and_cluster
        IN  /\ Rescaled(ipr)
            /\ AllZero(ipr) <=> \A r \in 1..pp.nresidues : RMean(raw[r]) = RMean(raw[1])
            /\ iprc # None =>
                 \A c \in 1..NCols(fi) :
                    /\ Rescaled(Column(iprc, c))
                    /\ AllZero(Column(iprc, c))
                         <=> \A r \in 1..pp.nresidues : raw[r][c] = raw[1][c]

C3_Witness ==
    /\ Averaged
    /\ pp.rescale_results
    /\ pp.supervised
    /\ pp.nclusters = 2
    /\ ~AllZero(pp.importance_per_residue)
    /\ AllZero(Column(pp.importance_per_residue_and_cluster, 1))
    /\ \E r \in 1..pp.nresidues :
          /\ pp.importance_per_residue_and_cluster[r][2] \notin {Zero, One}
          /\ pp.importance_per_residue[r] \notin {Zero, One}

\* the outputs of average() and evaluate_performance()
Outputs(p) ==
    <<p.importance_per_residue, p.std_importance_per_residue,
      p.importance_per_residue_and_cluster, p.std_importance_per_residue_and_cluster,
      p.average_std, p.auc>>

\* C4: a further average() or evaluate_performance() on a PostProcessor
\* leaves every output an earlier call has set exactly as it was: no call
\* accumulates onto the state a previous call left
C4_Idempotent ==
    [][pp # None =>
        /\ pp' # None
        /\ \A i \in 1..Len(Outputs(pp)) :
              Outputs(pp)[i] # None => Outputs(pp')[i] = Outputs(pp)[i]]_vars

\* average() called again, after average() and evaluate_performance() had
\* completed, on a supervised run with the agreement score computed
C4_Witness ==
    /\ Averaged
    /\ pp.average_std # None
    /\ pp.auc # None
    /\ \E r \in 1..pp.nresidues : pp.importance_per_residue[r] # Zero
    /\ last = Called("average", NoException)

\* C5: constructing a PostProcessor and calling its methods leaves the
\* extractor's feature_importance and std_feature_importance as
\* extract_features produced them
C5_ExtractorArraysUntouched ==
    /\ heap[extractor.feature_importance] = produced.feature_importance
    /\ heap[extractor.std_feature_importance] = produced.std_feature_importance

C8_NoGroundTruthNoScore ==
    (pp # None /\ pp.predefined_relevant_residues = None) =>
        /\ pp.auc = None
        /\ (Averaged /\ last.call = "evaluate_performance") =>
              /\ last.raised = NoException
              /\ pp.average_std = SurdMean(pp.std_importance_per_residue)
              /\ pp.data_projector # None
              /\ pp.data_projector.scored

C8_Witness ==
    /\ Averaged
    /\ pp.supervised
    /\ pp.predefined_relevant_residues = None
    /\ last = Called("evaluate_performance", NoException)
    /\ pp.average_std # None
    /\ pp.auc = None

\* the number of entries of col greater than v, and not less than v
Above(col, v) == Cardinality({r \in 1..Len(col) : RLt(v, col[r])})
NotBelow(col, v) == Cardinality({r \in 1..Len(col) : RLe(v, col[r])})

\* the k-th largest entry of col, repetitions counted
KthLargest(col, k) ==
    LET r == CHOOSE r \in 1..Len(col) :
                Above(col, col[r]) < k /\ k <= NotBelow(col, col[r])
    IN  col[r]

\* the drop from the k-th largest entry of col to the next
Gap(col, k) == RSub(KthLargest(col, k), KthLargest(col, k + 1))

\* the first position of the largest drop
SplitPoint(col) ==
    CHOOSE j \in 1..(Len(col) - 1) :
        /\ \A k \in 1..(Len(col) - 1) : RLe(Gap(col, k), Gap(col, j))
        /\ \A k \in 1..(j - 1) : Gap(col, k) # Gap(col, j)

\* the sets of residues that can be the j most important of col
TopSets(col, j) ==
    {P \in SUBSET (1..Len(col)) :
        /\ Cardinality(P) = j
        /\ \A r \in P, s \in (1..Len(col)) \ P : RLe(col[s], col[r])}

\* (TP - FP) / (TP + FP) and (TN - FN) / (TN + FN) of the positive set P
PositiveRatio(P, actives) ==
    Rat(Cardinality(P \cap actives) - Cardinality(P \ actives), Cardinality(P))
NegativeRatio(N, actives) ==
    Rat(Cardinality(N \ actives) - Cardinality(N \cap actives), Cardinality(N))

\* C9: the signed-agreement score splits, for each cluster, the residues
\* sorted by descending importance at the first index of the maximum
\* consecutive difference: the residues up to and including that position are
\* positive, the rest negative; auc is (TP - FP) / (TP + FP) and
\* (TN - FN) / (TN + FN) against the cluster's relevant residues, each
\* averaged over the clusters
C9_LargestGapSplit ==
    (pp # None /\ pp.auc # None) =>
        LET all == 1..pp.nresidues
            col(i) == Column(pp.importance_per_residue_and_cluster, i)
        IN  \E P \in [1..pp.nclusters -> SUBSET all] :
              /\ \A i \in 1..pp.nclusters : P[i] \in TopSets(col(i), SplitPoint(col(i)))
              /\ pp.auc =
                   <<RDiv(RSum(Arr([i \in 1..pp.nclusters |->
                            PositiveRatio(P[i], pp.predefined_relevant_residues[i])])),
                          Q(pp.nclusters)),
                     RDiv(RSum(Arr([i \in 1..pp.nclusters |->
                            NegativeRatio(all \ P[i], pp.predefined_relevant_residues[i])])),
                          Q(pp.nclusters))>>

\* the largest drop occurs twice in cluster 1 (2, 1, 1, 0): the split is after
\* the first residue, which is the relevant one
C9_Witness ==
    /\ pp # None
    /\ pp.auc # None
    /\ ~pp.rescale_results
    /\ pp.nclusters = 1
    /\ Column(pp.importance_per_residue_and_cluster, 1) = <<Q(2), Q(1), Q(1), Q(0)>>
    /\ pp.auc = <<One, One>>
    /\ last = Called("evaluate_performance", NoException)

\* C10: in the cross-validation harness a split whose held-out error exceeds
\* error_limit leaves the aggregates (sum, sum of squares, errors) as they
\* were, an accepted split adds its importance and appends its error;
\* test_set_errors holds one scalar per accepted split, at most
\* n_iterations * n_splits, and the finished run's arrays are the mean and
\* the errors of the accepted splits
C10_RejectedSplitsDiscarded ==
    /\ [](/\ Len(hs.test_set_errors) = hs.n_accepted
          /\ hs.n_accepted <= hs.splits_finished
          /\ hs.splits_finished <= inp.n_iterations * inp.n_splits
          /\ \A k \in 1..Len(hs.test_set_errors) :
                RLe(hs.test_set_errors[k], Q(error_limit))
          /\ hs.pc = "done" =>
                /\ extractor.test_set_errors = hs.test_set_errors
                /\ Len(extractor.test_set_errors) >= 1
                /\ \A f \in 1..2 :
                      \/ heap.ext_fi[f][1] = RDiv(hs.sum[f][1], Q(hs.n_accepted))
                      \/ inp.filter_by_distance_cutoff /\ f = 1)
    /\ [][(hs.pc = "error" /\ hs'.pc # "error") =>
            IF hs'.error > error_limit
            THEN /\ hs'.sum = hs.sum
                 /\ hs'.sum_of_squares = hs.sum_of_squares
                 /\ hs'.test_set_errors = hs.test_set_errors
                 /\ hs'.n_accepted = hs.n_accepted
            ELSE /\ hs'.sum = MatAdd(hs.sum, hs.importance)
                 /\ hs'.sum_of_squares = MatAdd(hs.sum_of_squares, MatSquare(hs.importance))
                 /\ hs'.test_set_errors = Append(hs.test_set_errors, Q(hs'.error))]_vars

\* a finished run in which a split was rejected after another, with a
\* non-zero importance, had been accepted
C10_Witness ==
    /\ hs.pc = "done"
    /\ hs.error > error_limit
    /\ hs.n_accepted >= 1
    /\ hs.n_accepted < hs.splits_finished
    /\ hs.models_trained = hs.splits_finished
    /\ heap.ext_fi[2][1] # Zero
    /\ Len(extractor.test_set_errors) = hs.n_accepted

\* C6: the sample matrix and the label matrix are never modified: the
\* get_feature_importance of the MLP, ELM and RBM extractors (its in-place
\* clipping and rescaling of the relevance included), the ELM's fit and
\* predict, and the PostProcessor's methods leave both arrays as they were
C6_InputsImmutable ==
    /\ heap[extractor.samples] = produced.samples
    /\ heap[extractor.labels] = produced.labels

\* the RBM extractor has clipped a negative relevance and rescaled the frame
C6_Witness ==
    /\ last = Called("rbm_get_feature_importance", NoException)
    /\ extractor.classifier.relevance[1] = <<Q(-1), Q(2)>>
    /\ heap.samples[1][1] # Zero
    /\ heap.result[1][ArgMax(heap.labels[1])].terms[1] = EpsQuot(Zero, Q(2))
    /\ heap.samples = produced.samples

\* the number of splits of the run
TotalSplits == inp.n_iterations * inp.n_splits

\* C11: a run whose splits were all rejected fails with the
\* insufficient-valid-splits error and returns no importance arrays; a run
\* with an accepted split does not fail, and a split that fails to train or
\* is rejected only moves the run on to its next split or to its end
C11_AllRejectedFails ==
    /\ [](/\ hs.pc = "failed" =>
               /\ hs.n_accepted = 0
               /\ hs.splits_finished = TotalSplits
               /\ last = Called("extract_features", "InsufficientValidSplits")
               /\ extractor.feature_importance = None
               /\ extractor.std_feature_importance = None
               /\ heap.ext_fi = None /\ heap.ext_std = None
          /\ hs.pc = "done" =>
               /\ hs.n_accepted > 0
               /\ heap.ext_fi # None /\ heap.ext_std # None
               /\ Len(extractor.test_set_errors) = hs.n_accepted
          /\ (hs.pc = "finalize" /\ hs.n_accepted = 0) => ~ENABLED Finalize
          /\ (hs.pc = "finalize" /\ hs.n_accepted > 0) => ~ENABLED FinalizeFails)
    /\ [][(hs'.splits_finished = hs.splits_finished + 1
              /\ hs'.n_accepted = hs.n_accepted)
           => /\ hs'.pc = IF hs'.splits_finished < TotalSplits
                          THEN "train" ELSE "finalize"
              /\ UNCHANGED <<heap, extractor>>]_vars

\* every split of the run was trained and then rejected, and the run failed
C11_Witness ==
    /\ hs.pc = "failed"
    /\ hs.models_trained = hs.splits_finished
    /\ hs.error > error_limit
    /\ hs.splits_finished = MaxIterations * MaxSplits

\* the split the run is at
CurrentSplit == [iteration |-> hs.iteration, split |-> hs.split]

\* C12: get_feature_importance() is called only after the train() of the
\* same split has returned, and on the model that train() returned; no model
\* serves two splits; the finalize step runs only after all
\* n_iterations * n_splits splits have finished
C12_SplitOrdering ==
    /\ [](/\ hs.pc = "importance" =>
               /\ last = Called("train", NoException)
               /\ hs.model = CurrentSplit
          /\ hs.pc = "error" =>
               /\ hs.importance_of = CurrentSplit
               /\ hs.importance_of = hs.model
          /\ hs.pc = "train" => (hs.model = None /\ hs.importance_of = None)
          /\ hs.pc \in {"finalize", "done", "failed"} =>
               /\ hs.splits_finished = TotalSplits
               /\ hs.iteration = inp.n_iterations /\ hs.split = inp.n_splits
          /\ hs.pc \in {"train", "importance", "error"} =>
               hs.splits_finished = (hs.iteration - 1) * inp.n_splits + hs.split - 1
          /\ hs.models_trained <= hs.splits_finished + 1)
    /\ [][/\ last' = Called("get_feature_importance", NoException) =>
               /\ last = Called("train", NoException)
               /\ hs'.importance_of = hs.model
               /\ hs.model = CurrentSplit
          /\ last' = Called("extract_features", NoException) =>
               hs.splits_finished = TotalSplits]_vars

\* a run of the largest size that trained a model in every split has been
\* finalized
C12_Witness ==
    /\ hs.pc = "done"
    /\ last = Called("extract_features", NoException)
    /\ hs.models_trained = MaxIterations * MaxSplits
    /\ hs.splits_finished = MaxIterations * MaxSplits

\* the frames whose label row has its (first) maximum in column c
AssignedTo(labels, c) ==
    {i \in 1..Len(labels) :
        /\ \A k \in 1..Len(labels[i]) : RLe(labels[i][k], labels[i][c])
        /\ \A k \in 1..(c - 1) : labels[i][k] # labels[i][c]}

\* the sum of the relevance of feature f over a set of frames
RECURSIVE RelevanceSum(_, _, _)
RelevanceSum(relevance, frames, f) ==
    IF frames = {} THEN Zero
    ELSE LET i == CHOOSE i \in frames : TRUE
         IN  RAdd(relevance[i][f], RelevanceSum(relevance, frames \ {i}, f))

\* C14: the result of the MLP's (and the ELM's) get_feature_importance has,
\* for each cluster c, the sum of the relevance vectors of the frames whose
\* label row peaks at c divided by the number of those frames, and an
\* all-zero column for a cluster without frames
C14_ClusterAverage ==
    last = Called("mlp_get_feature_importance", NoException) =>
        LET labels == heap[inp.labels]
            relevance == extractor.classifier.relevance
        IN  /\ Len(heap.result) = NCols(heap[inp.data])
            /\ \A f \in 1..Len(heap.result) :
                 /\ Len(heap.result[f]) = NCols(labels)
                 /\ \A c \in 1..NCols(labels) :
                      LET frames == AssignedTo(labels, c)
                      IN  heap.result[f][c] =
                             IF frames = {} THEN Zero
                             ELSE RDiv(RelevanceSum(relevance, frames, f),
                                       Q(Cardinality(frames)))

\* two frames of the first cluster were averaged and the second cluster,
\* without a frame, has a zero column
C14_Witness ==
    /\ last = Called("mlp_get_feature_importance", NoException)
    /\ Len(heap.labels) = 2
    /\ AssignedTo(heap.labels, 2) = {}
    /\ extractor.classifier.relevance[1][1] # extractor.classifier.relevance[2][1]
    /\ heap.result[1][1] = Rat(1, 2)
    /\ heap.result[1][2] = Zero /\ heap.result[2][2] = Zero

\* C13: the result of a strategy's get_feature_importance is a matrix with
\* one row per feature and one column per cluster; the random forest's result
\* has the model's feature importances in every cluster column, and the
\* column count of the PCA's result does not depend on the components selected
C13_ResultIsFeaturesByClusters ==
    hs.pc = "returned" =>
        /\ heap.result.shape = <<inp.n_features, inp.n_clusters>>
        /\ extractor.kind = "rf" =>
              \A f \in 1..inp.n_features : \A c \in 1..inp.n_clusters :
                 heap.result.values[f][c]
                     = extractor.classifier.feature_importances_.values[f]

\* the cumulative explained-variance ratio of the first k components
CumulativeRatio(explained_var, k) == RSum(SubSeq(explained_var, 1, k))

\* the smallest number of leading components whose cumulative ratio reaches
\* the cutoff
SmallestReaching(explained_var, cutoff) ==
    CHOOSE k \in 1..Len(explained_var) :
        /\ RLe(cutoff, CumulativeRatio(explained_var, k))
        /\ \A j \in 1..(k - 1) : RLt(CumulativeRatio(explained_var, j), cutoff)

\* C15: with n_components not configured, the number of components the PCA
\* extractor selects is the smallest k whose cumulative explained-variance
\* ratio is >= the cutoff, capped at the number of clusters, and the
\* components used are the first k
C15_SmallestCountReachingCutoff ==
    (last = Called("pca_get_feature_importance", NoException)
        /\ extractor.n_components = None) =>
        LET model == extractor.classifier
            smallest == SmallestReaching(model.explained_variance_ratio_,
                                         extractor.variance_cutoff)
            k == IF smallest <= inp.n_clusters THEN smallest ELSE inp.n_clusters
        IN  /\ get_n_components(extractor, model, inp.n_clusters) = k
            /\ heap.result.values = collect_components(model, k)

\* C16: the cutoff the PCA extractor selects components with is the value of
\* the constructor's variance_cutoff argument
C16_ConfiguredCutoffUsed ==
    (hs.pc \in {"constructed", "trained", "returned"} /\ extractor.kind = "pca") =>
        extractor.variance_cutoff = inp.variance_cutoff

\* the value of a share with the epsilon neglected; a share of nothing over
\* nothing is 0
ShareValue(share) == IF share.den = Zero THEN Zero ELSE RDiv(share.num, share.den)

\* a share whose value the epsilon does not change by more than epsilon
ShareBounded(share) == share.den # Zero \/ share.num = Zero

\* the shares of output j the inputs of frame n hold, added up: they have
\* one divisor
SharesOf(n, j) ==
    Share(RSum(Arr([i \in 1..Len(heap.relevance[n]) |-> heap.relevance[n][i][j].num])),
          heap.relevance[n][1][j].den)

\* the sum of the input-side relevance of frame n, the epsilon neglected
InputRelevance(n) ==
    RSum(Arr([j \in 1..Len(inp.T[n]) |-> ShareValue(SharesOf(n, j))]))

\* the sum of the output-side relevance frame n was started from
OutputRelevance(n) == RSum(inp.T[n])

\* the relevance has the shape of the input batch
SameShape ==
    /\ Len(heap.relevance) = Len(inp.X)
    /\ \A n \in 1..Len(inp.X) : Len(heap.relevance[n]) = Len(inp.X[n])

\* the frame's outputs that hold relevance have contributions that do not
\* cancel
Contributing(n) ==
    \A j \in 1..Len(inp.T[n]) :
        inp.T[n][j] # Zero => contributions(inp.layers[1], inp.X[n], j) # Zero

SupportedActivations == {"relu", "logistic_sigmoid"}

\* C18: with an activation other than the rectified-linear and the
\* logistic-sigmoid one, fit() and predict() raise the configuration error,
\* and fit() leaves coefs_ and intercepts_ None; with a supported one neither
\* raises that error
C18_OnlyReluAndLogistic ==
    /\ (last.call = "elm_fit" /\ extractor.activation_func \notin SupportedActivations) =>
          /\ last.raised = "Exception"
          /\ extractor.coefs_ = None /\ extractor.intercepts_ = None
    /\ (last.call = "elm_predict" /\ extractor.activation_func \notin SupportedActivations) =>
          /\ last.raised = "Exception"
          /\ extractor.coefs_ = None /\ extractor.intercepts_ = None
    /\ (last.call \in {"elm_fit", "elm_predict"}
          /\ extractor.activation_func \in SupportedActivations) =>
          last.raised # "Exception"

\* C19: a hidden_layer_sizes of one element, or a single integer (the
\* default included), constructs a one-layer classifier; any other number
\* of hidden layers is rejected with the configuration error
C19_ExactlyOneHiddenLayer ==
    last.call = "elm_init" =>
        IF inp.hidden_layer_sizes.type = "int" \/ Len(inp.hidden_layer_sizes.value) = 1
        THEN /\ last.raised = NoException
             /\ hs.pc = "constructed"
             /\ Len(extractor.hidden_layer_sizes) = 1
        ELSE /\ last.raised = "Exception"
             /\ hs.pc = "rejected"
             /\ extractor = None

\* C20: an MLP extractor configured with an activation other than relu is
\* rejected with a configuration error: it is neither constructed nor trained
C20_UnsupportedActivationFatal ==
    (inp.activation # "relu" /\ hs.pc # "new") =>
        /\ hs.pc = "rejected"
        /\ last = Called("mlp_init", "Exception")
        /\ extractor = None

\* C21: get_feature_importance of an RBM extractor whose relevance_method is
\* neither "from_lrp" nor "from_components" raises the configuration error
\* and leaves no importance matrix; with "from_lrp" it returns one
C21_UnknownMethodRaises ==
    /\ [](last.call = "rbm_get_feature_importance" =>
            IF extractor.config.relevance_method \in {"from_lrp", "from_components"}
            THEN last.raised = NoException /\ "result" \in DOMAIN heap
            ELSE last.raised = "Exception" /\ "result" \notin DOMAIN heap)
    /\ [][(last'.call = "rbm_get_feature_importance"
             /\ extractor.config.relevance_method \notin {"from_lrp", "from_components"})
          => /\ last'.raised = "Exception"
             /\ heap' = Inputs(heap)
             /\ UNCHANGED extractor]_vars

\* the RBM extractor of an unknown method was trained and asked for its
\* importance
C21_Witness ==
    /\ last = Called("rbm_get_feature_importance", "Exception")
    /\ extractor.config.relevance_method = "from_weights"
    /\ extractor.classifier # None
    /\ DOMAIN heap = {"samples", "labels"}

\* the output of the fitted network for the rows of x, before it is encoded
NetworkOutput(clf, x) ==
    MatMul(g_ELM(AddBias(MatMul(x, clf.coefs_[1]), clf.intercepts_[1]),
                 clf.activation_func),
           clf.coefs_[2])

\* row is one-hot at the lowest index of the largest entry of output
OneHotAtArgMax(row, output) ==
    /\ Len(row) = Len(output)
    /\ \E c \in 1..Len(output) :
          /\ \A k \in 1..Len(output) : RLe(output[k], output[c])
          /\ \A k \in 1..(c - 1) : RLt(output[k], output[c])
          /\ row[c] = One
          /\ \A k \in 1..Len(row) : k # c => row[k] = Zero

\* C22: predict returns one row per input row, each with a single 1 at the
\* arg-max of the network's output for the row (the lowest index on a tie)
\* and 0 elsewhere
C22_PredictOneHot ==
    last = Called("elm_predict", NoException) =>
        LET output == NetworkOutput(extractor, heap.samples)
        IN  /\ Len(heap.t) = Len(heap.samples)
            /\ \A r \in 1..Len(heap.t) : OneHotAtArgMax(heap.t[r], output[r])

\* a prediction for two frames: the output of the first has a tie, broken
\* to the first cluster; the second frame's output peaks at the second
C22_Witness ==
    /\ last = Called("elm_predict", NoException)
    /\ Len(heap.samples) = 2
    /\ LET output == NetworkOutput(extractor, heap.samples)
       IN  /\ output[1][1] = output[1][2]
           /\ RLt(output[2][1], output[2][2])
    /\ heap.t = <<<<One, Zero>>, <<Zero, One>>>>

\* the hidden activations H of the fitted classifier for the rows of x
HiddenActivations(clf, x) ==
    g_ELM(AddBias(MatMul(x, clf.coefs_[1]), clf.intercepts_[1]), clf.activation_func)

\* gram plus term times the identity; gram itself without regularisation
Regularised(gram, term) ==
    IF term = None THEN gram
    ELSE Arr([r \in 1..Len(gram) |-> Arr([c \in 1..Len(gram) |->
            IF r = c THEN RAdd(gram[r][c], term) ELSE gram[r][c]])])

\* (H^T H + term I)^-1 H^T
PrimalForm(H, term) ==
    MatMul(Inverse(Regularised(MatMul(Transpose(H), H), term)), Transpose(H))

\* H^T (H H^T + term I)^-1
DualForm(H, term) ==
    MatMul(Transpose(H), Inverse(Regularised(MatMul(H, Transpose(H)), term)))

PrimalInvertible(H, term) ==
    Inverse(Regularised(MatMul(Transpose(H), H), term)) # None

\* the output weights of a fit whose pseudo-inverse adds term times the identity
OutputWeights(H, term, t) ==
    MatMul(IF PrimalInvertible(H, term) THEN PrimalForm(H, term) ELSE DualForm(H, term), t)

\* C23: the output weights of a fit with the regularisation factor alpha are
\* the pseudo-inverse (H^T H + alpha I)^-1 H^T, or H^T (H H^T + alpha I)^-1
\* when the primal matrix is singular, applied to t: the term added to the
\* Gram matrix is alpha times the identity
C23_AlphaTimesIdentity ==
    last = Called("elm_fit", NoException) =>
        extractor.coefs_[2] =
            OutputWeights(HiddenActivations(extractor, heap.samples),
                          extractor.alpha, heap.labels)

\* the hidden activations of a fit with the draws kept in hs
FitActivations == g_ELM(AddBias(MatMul(heap.samples, hs.W1), hs.b1), extractor.activation_func)

\* the term _pseudo_inverse adds to the diagonal of a Gram matrix
FitTerm == IF extractor.alpha = None THEN None ELSE RMul(extractor.alpha, extractor.alpha)

DualInvertible(H, term) ==
    Inverse(Regularised(MatMul(H, Transpose(H)), term)) # None

\* C24: fit() uses the primal form (H^T H + ..)^-1 H^T whenever the
\* regularised primal Gram matrix is invertible and the dual form
\* H^T (H H^T + ..)^-1 exactly when it is singular; the singularity of the
\* primal matrix alone never makes fit() raise: fit() raises LinAlgError
\* only when the dual matrix is singular as well
C24_DualFallback ==
    (last.call = "elm_fit" /\ extractor.activation_func \in SupportedActivations) =>
        LET H == FitActivations
        IN  IF PrimalInvertible(H, FitTerm)
            THEN /\ last.raised = NoException
                 /\ extractor.coefs_[2] = MatMul(PrimalForm(H, FitTerm), heap.labels)
            ELSE IF DualInvertible(H, FitTerm)
            THEN /\ last.raised = NoException
                 /\ extractor.coefs_[2] = MatMul(DualForm(H, FitTerm), heap.labels)
            ELSE /\ last.raised = "LinAlgError"
                 /\ extractor.coefs_ = None

\* a fit of one frame with two hidden units and no regularisation: the
\* primal Gram matrix is singular, the dual form gave the output weights
C24_Witness ==
    /\ last = Called("elm_fit", NoException)
    /\ extractor.alpha = None
    /\ Len(heap.samples) = 1
    /\ extractor.hidden_layer_sizes = <<2>>
    /\ ~PrimalInvertible(FitActivations, FitTerm)
    /\ DualInvertible(FitActivations, FitTerm)
    /\ extractor.coefs_[2] # Zeros(2, 2)

\* relevance frame, its negative entries set to 0
Clipped(frame) == Arr([f \in 1..Len(frame) |-> IF RLt(frame[f], Zero) THEN Zero ELSE frame[f]])

\* the entry of feature f of a frame after clipping and rescaling between
\* the frame's own min and max
FrameRescaled(frame, f) ==
    LET clipped == Clipped(frame)
    IN  EpsQuot(RSub(clipped[f], RMinSeq(clipped)), RSub(RMaxSeq(clipped), RMinSeq(clipped)))

\* x / (range + 1e-9) lies in [0, 1]
QuotInUnitInterval(q) == RLe(Zero, q.num) /\ RLe(q.num, q.range) /\ RLe(Zero, q.range)

\* C25: the "from_lrp" result of the RBM extractor is, for each cluster, the
\* mean over the cluster's frames of the frame's relevance clipped at 0 and
\* then rescaled between the frame's own min and max: every per-frame entry
\* lies in [0,1], and so does every entry of the result
C25_RescaledBeforeAveraging ==
    last = Called("rbm_get_feature_importance", NoException) =>
        LET relevance == extractor.classifier.relevance
            labels == heap.labels
        IN  /\ Len(heap.result) = NCols(heap.samples)
            /\ \A f \in 1..Len(heap.result) :
                 /\ Len(heap.result[f]) = NCols(labels)
                 /\ \A c \in 1..NCols(labels) :
                      LET entry == heap.result[f][c]
                          frames == AssignedTo(labels, c)
                      IN  /\ entry.over = Cardinality(frames)
                          /\ Len(entry.terms) = entry.over
                          /\ \A k \in 1..Len(entry.terms) :
                                QuotInUnitInterval(entry.terms[k])
                          /\ \E order \in [1..entry.over -> frames] :
                                /\ \A k \in 1..entry.over : \A j \in 1..(k - 1) :
                                      order[j] < order[k]
                                /\ \A k \in 1..entry.over :
                                      entry.terms[k] = FrameRescaled(relevance[order[k]], f)

\* two frames of one cluster, the first with a negative relevance that was
\* clipped: its entries are 0 and 2 / (2 + 1e-9)
C25_Witness ==
    /\ last = Called("rbm_get_feature_importance", NoException)
    /\ Len(heap.samples) = 2
    /\ extractor.classifier.relevance[1] = <<Q(-1), Q(2)>>
    /\ extractor.classifier.relevance[2] = <<Q(2), Q(2)>>
    /\ AssignedTo(heap.labels, 1) = {1, 2}
    /\ heap.result[1][1] = [terms |-> <<EpsQuot(Zero, Q(2)), EpsQuot(Zero, Zero)>>, over |-> 2]
    /\ heap.result[2][1].terms[1] = EpsQuot(Q(2), Q(2))

\* the importance the features other than f put on residue index r, column c
RECURSIVE OtherEndpointSum(_, _, _, _, _)
OtherEndpointSum(m, f, r, c, g) ==
    IF g > Len(m) THEN Zero
    ELSE RAdd(IF g = f THEN Zero
              ELSE RMul(Q(Cardinality({k \in 1..2 :
                            inp.feature_to_resids[g][k] = pp.index_to_resid[r]})),
                        m[g][c]),
              OtherEndpointSum(m, f, r, c, g + 1))

SelfPairs == {f \in 1..Len(inp.feature_to_resids) : inp.feature_to_resids[f][1] = inp.feature_to_resids[f][2]}

\* C26: after the mapping of features to residues, each cluster column of
\* the residue array sums to twice the column sum of the feature array; a
\* feature whose two residues coincide puts twice its importance on that one
\* residue; and a feature the constructor zeroed for its -1 mark adds nothing.
C26_MappingDoublesTotal ==
    RawMappedVisible =>
        LET fi == heap[pp.feature_importances]
            mapped == pp.importance_mapped_to_resids
            f2r == inp.feature_to_resids
            kept == {f \in 1..Len(fi) : f \notin pp.indices_filtered}
        IN  /\ \A c \in 1..NCols(fi) :
                 /\ RSum(Column(mapped, c)) = RMul(Q(2), RSum(Column(fi, c)))
                 /\ RSum(Column(mapped, c)) =
                       RMul(Q(2), RSum(Arr([f \in 1..Len(fi) |->
                                 IF f \in kept THEN fi[f][c] ELSE Zero])))
            /\ \A f \in SelfPairs, r \in 1..pp.nresidues, c \in 1..NCols(fi) :
                 pp.index_to_resid[r] = f2r[f][1] =>
                    RSub(mapped[r][c], OtherEndpointSum(fi, f, r, c, 1)) = RMul(Q(2), fi[f][c])
            /\ \A f \in pp.indices_filtered, c \in 1..NCols(fi) : fi[f][c] = Zero
            /\ \A f \in 1..Len(fi), c \in 1..NCols(fi) :
                 produced.feature_importance[f][1] = Q(-1) => fi[f][c] = Zero

C26_Witness ==
    /\ RawMappedVisible
    /\ inp.feature_to_resids = << <<2, 2>>, <<2, 4>> >>
    /\ heap[pp.feature_importances] = << <<Q(1)>>, <<Q(1)>> >>
    /\ pp.importance_mapped_to_resids = << <<Q(3)>>, <<Q(1)>> >>

\* the states in which _compute_area_under_ROC can be entered
SplitDefined ==
    /\ pp # None
    /\ pp.importance_per_residue_and_cluster # None
    /\ pp.predefined_relevant_residues # None
    /\ pp.nresidues >= 2

InUnitBall(q) == RLe(Q(-1), q) /\ RLe(q, One)

\* C27: for every cluster and every importance column over at least two
\* residues, whichever way the sort orders ties, POSITIVE and NEGATIVE are
\* both non-empty, disjoint and together hold every residue index, so
\* TP + FP + TN + FN is the number of residues, neither ratio divides by
\* zero, and both averaged scores lie in [-1, 1].
C27_SplitIsPartition ==
    SplitDefined =>
        /\ \A ties \in TieOrders, i \in 1..pp.nclusters :
              LET k == cluster_confusion(pp, i, ties)
              IN  /\ k.POSITIVE # <<>>
                  /\ k.NEGATIVE # <<>>
                  /\ SeqRange(k.POSITIVE) \cap SeqRange(k.NEGATIVE) = {}
                  /\ SeqRange(k.POSITIVE) \cup SeqRange(k.NEGATIVE) = 1..pp.nresidues
                  /\ k.TP + k.FP + k.TN + k.FN = pp.nresidues
                  /\ k.TP + k.FP > 0
                  /\ k.TN + k.FN > 0
                  /\ k.TP >= 0 /\ k.FP >= 0 /\ k.TN >= 0 /\ k.FN >= 0
        /\ \A ties \in TieOrders :
              /\ area_under_ROC_raises(pp, ties) = NoException
              /\ LET auc == compute_area_under_ROC(pp, ties).auc
                 IN  InUnitBall(auc[1]) /\ InUnitBall(auc[2])
        /\ pp.auc # None => InUnitBall(pp.auc[1]) /\ InUnitBall(pp.auc[2])
        /\ (pp.supervised /\ last = Called("evaluate_performance", NoException))
              => pp.auc # None

C27_Witness ==
    /\ SplitDefined
    /\ pp.nresidues >= 3
    /\ last = Called("evaluate_performance", NoException)
    /\ pp.auc # None
    /\ \E i \in 1..pp.nclusters :
          LET k == cluster_confusion(pp, i, numpy.argsort_ties)
          IN  k.TP > 0 /\ k.FP > 0 /\ k.TN > 0

DerivedOutputs(p) ==
    <<p.importance_per_residue, p.std_importance_per_residue,
      p.importance_per_residue_and_cluster, p.average_std, p.data_projector, p.auc>>

PerformanceOutputs(p) == <<p.average_std, p.data_projector, p.auc>>

\* C28: a freshly constructed PostProcessor has every derived output None;
\* evaluate_performance() succeeds only after average() has run; called
\* before average() it fails and leaves average_std, data_projector and auc
\* None.
C28_AverageBeforeEvaluate ==
    /\ [](pp # None =>
            /\ last.call = "__init__" => DerivedOutputs(pp) = <<None, None, None, None, None, None>>
            /\ last = Called("evaluate_performance", NoException) => Averaged
            /\ ~Averaged => PerformanceOutputs(pp) = <<None, None, None>>
            /\ (~Averaged /\ last.call = "evaluate_performance") => last.raised # NoException)
    /\ [][(pp # None /\ ~Averaged /\ last'.call = "evaluate_performance") =>
             /\ last'.raised = "AttributeError"
             /\ PerformanceOutputs(pp') = <<None, None, None>>
             /\ ~Averaged']_vars

C28_Witness ==
    /\ pp # None
    /\ ~Averaged
    /\ last = Called("evaluate_performance", "AttributeError")
    /\ pp.supervised
    /\ pp.predefined_relevant_residues # None
    /\ PerformanceOutputs(pp) = <<None, None, None>>

\* what a PostProcessor built now, by the constructor or by postprocessing(),
\* with supervised argument s, can be
Constructible(s) ==
    {PostProcessorInit(extractor, heap, r, f, inp.feature_to_resids, pre, s).p :
        r \in BOOLEAN, f \in BOOLEAN,
        pre \in PredefinedChoices(Cardinality(SeqRange(extractor.cluster_indices)),
                                  Len(index_to_resid(inp.feature_to_resids)))}

====
